---- MODULE Spec2Model ----
(***************************************************************************)
(* Model of the badge server's firmware image patcher                      *)
(* (app/services/patch_firmware_image.py), of its two callers (the         *)
(* command-line patch_firmware and the web path                            *)
(* generate_firmware_from_image in app/services/firmware_builder.py) and   *)
(* of the personalisation request post_badge (app/routes/public.py) with   *)
(* the badge table it writes (app/db.py).                                  *)
(*                                                                         *)
(* Bytes are integers 0..255, byte strings are sequences of bytes, and an  *)
(* offset is 0-based as in Python: offset i is element i + 1.              *)
(* An Optional value is a sequence: None is << >>, a value x is << x >>.   *)
(***************************************************************************)
EXTENDS Integers, Sequences, FiniteSets, TLC

VARIABLES
    \* ---- patch_firmware_bytes and its callers ----
    caller,          \* "cli" (patch_firmware) or "web" (generate_firmware_from_image)
    firmware_bytes,  \* the caller's firmware template (argument, never assigned)
    new_image_data,  \* the caller's pixel buffer (argument, never assigned)
    pc,              \* position of the call
    firmware_data,   \* patch_firmware_bytes' private bytearray copy
    image_start, image_size,           \* Optional offsets of the image slot
    hash_bytes,                        \* Optional 8-byte truncated hash
    hash_start, hash_size,             \* Optional offsets of the hash slot
    outcome,         \* what patch_firmware_bytes hands to its caller
    output_file,     \* Optional: bytes the CLI wrote to output_path
    caller_result,   \* what the caller hands to its own caller
    \* ---- post_badge and the badge table ----
    badges,          \* unique_id -> badge row (committed database state)
    reqs,            \* request id -> state of one post_badge request
    \* ---- concurrent patch_firmware_bytes calls on shared objects ----
    heap,            \* object id -> the bytes the object holds
    calls,           \* call id -> arguments, locals and position of one call
    \* ---- _image_to_pixel_data ----
    decoded_image,   \* the decoded image (img): mode, size and pixel values
    target_width, target_height,
    converted,       \* Optional: the (pixel_data, width, height) returned
    enc_pc,          \* position of the encoder's caller
    \* ---- main (the command line) ----
    argc,            \* len(sys.argv)
    firmware_exists, image_exists,     \* os.path.exists of the two input paths
    exit_status,     \* Optional: the status the process exited with
    \* ---- the admin routes ----
    gallery,         \* image_label -> gallery row (committed database state)
    admin_reqs,      \* request id -> state of one admin request
    \* ---- LogStore ----
    log_entries,     \* the deque _entries, oldest first
    log_lock,        \* Optional: the thread holding _lock
    log_threads,     \* thread -> position and locals of its LogStore call
    log_appended,    \* every entry appended so far, in the order of the appends
    \* ---- normalise_mac_address ----
    mac_value,       \* the argument value
    normalised,      \* Optional: the string returned
    normalised_again,\* Optional: what the function returns for that string
    mac_pc,          \* position of the caller
    \* ---- patching a patched firmware again ----
    second_image_data,\* the pixel buffer of the second call
    repatched,       \* what the second call hands back
    repatch_pc,      \* position between the two calls
    \* ---- the unlock records of the badges ----
    unlocked         \* the badge_unlocked_images rows, each <<unique_id, image_label>>

patchVars == <<caller, firmware_bytes, new_image_data, pc, firmware_data,
               image_start, image_size, hash_bytes, hash_start, hash_size,
               outcome, output_file, caller_result>>
badgeVars == <<badges, reqs>>
sharedVars == <<heap, calls>>
encodeVars == <<decoded_image, target_width, target_height, converted, enc_pc>>
mainVars == <<argc, firmware_exists, image_exists, exit_status>>
adminVars == <<gallery, admin_reqs>>
logVars == <<log_entries, log_lock, log_threads, log_appended>>
macVars == <<mac_value, normalised, normalised_again, mac_pc>>
repatchVars == <<second_image_data, repatched, repatch_pc>>
unlockVars == <<unlocked>>
vars == <<caller, firmware_bytes, new_image_data, pc, firmware_data,
          image_start, image_size, hash_bytes, hash_start, hash_size,
          outcome, output_file, caller_result, badges, reqs, heap, calls,
          decoded_image, target_width, target_height, converted, enc_pc,
          argc, firmware_exists, image_exists, exit_status,
          gallery, admin_reqs,
          log_entries, log_lock, log_threads, log_appended,
          mac_value, normalised, normalised_again, mac_pc,
          second_image_data, repatched, repatch_pc,
          unlocked>>

\* what the steps of one sub-model leave alone
outsidePatch == <<badgeVars, sharedVars, encodeVars, mainVars, adminVars, logVars, macVars, repatchVars, unlockVars>>
outsideBadge == <<patchVars, sharedVars, encodeVars, mainVars, adminVars, logVars, macVars, repatchVars, unlockVars>>
outsideShared == <<patchVars, badgeVars, encodeVars, mainVars, adminVars, logVars, macVars, repatchVars, unlockVars>>
outsideEncode == <<patchVars, badgeVars, sharedVars, mainVars, adminVars, logVars, macVars, repatchVars, unlockVars>>
outsideAdmin == <<patchVars, reqs, sharedVars, encodeVars, mainVars, logVars, macVars, repatchVars, unlockVars>>
outsideLog == <<patchVars, badgeVars, sharedVars, encodeVars, mainVars, adminVars, macVars, repatchVars, unlockVars>>
outsideMac == <<patchVars, badgeVars, sharedVars, encodeVars, mainVars, adminVars, logVars, repatchVars, unlockVars>>
outsideUnlock == <<patchVars, badgeVars, sharedVars, encodeVars, mainVars, adminVars, logVars, macVars, repatchVars>>
outsideRepatch == <<badgeVars, sharedVars, encodeVars, mainVars, adminVars, logVars, macVars, unlockVars>>

---------------------------------------------------------------------------
(* Optional values *)
None == << >>
Some(x) == << x >>
Val(o) == o[1]

---------------------------------------------------------------------------
(* The four markers, patch_firmware_image.py lines 22-25 *)
MAGIC_START == <<69, 65, 84, 70, 82, 85, 73, 84, 83>>
MAGIC_END == <<67, 82, 85, 77, 80, 83, 80, 65, 67, 69>>
HASH_MAGIC_START == <<72, 65, 83, 72, 68, 65, 84, 65>>
HASH_MAGIC_END == <<72, 65, 83, 72, 69, 78, 68>>

\* expected_size = 8, and the [:8] truncation of the digest
EXPECTED_HASH_SIZE == 8

---------------------------------------------------------------------------
(* Python primitives on byte strings *)

\* sub occurs in data at 0-based offset i
OccursAt(data, sub, i) ==
    /\ i >= 0
    /\ i + Len(sub) <= Len(data)
    /\ \A k \in 1..Len(sub) : data[i + k] = sub[k]

SetMin(S) == CHOOSE m \in S : \A n \in S : m <= n

\* bytes.find(sub, start): the lowest offset >= start where sub occurs, else -1
Find(data, sub, start) ==
    LET hits == {i \in start..(Len(data) - Len(sub)) : OccursAt(data, sub, i)}
    IN  IF hits = {} THEN -1 ELSE SetMin(hits)

\* data[lo:hi] for 0 <= lo <= hi (Python clamps hi to len(data))
Slice(data, lo, hi) ==
    LET h == IF hi > Len(data) THEN Len(data) ELSE hi
    IN  IF lo >= h THEN << >> ELSE [k \in 1..(h - lo) |-> data[lo + k]]

\* mutant of SliceAssign: the replacement is inserted and nothing is overwritten
SliceAssign_Insert(data, lo, hi, repl) ==
    Slice(data, 0, lo) \o repl \o Slice(data, lo, Len(data))

\* bytearray slice assignment  data[lo:hi] = repl  (lengths may differ)
SliceAssign(data, lo, hi, repl) ==
    Slice(data, 0, lo) \o repl \o Slice(data, hi, Len(data))

RECURSIVE WeightedSum(_, _, _)
WeightedSum(data, k, i) ==
    IF i > Len(data) THEN 0
    ELSE ((i + k) * (data[i] + k) + WeightedSum(data, k, i + 1)) % 256

\* hashlib.sha256(data).digest()[:8].  SHA-256 itself is the hash library's; what
\* the patcher relies on is a fixed function from the bytes hashed to 8 bytes,
\* which this stand-in is (a position-weighted checksum per output byte).
Sha256Prefix(data) ==
    [k \in 1..EXPECTED_HASH_SIZE |-> (WeightedSum(data, k, 1) + 31 * k + Len(data)) % 256]

HexDigits == <<"0", "1", "2", "3", "4", "5", "6", "7",
               "8", "9", "A", "B", "C", "D", "E", "F">>

\* bytes.hex().upper(): two uppercase hex digits per byte
HexUpper(data) ==
    [n \in 1..(2 * Len(data)) |->
        LET b == data[(n + 1) \div 2]
        IN  IF n % 2 = 1 THEN HexDigits[(b \div 16) + 1] ELSE HexDigits[(b % 16) + 1]]

---------------------------------------------------------------------------
\* mutant of find_image_data_location: the end marker is searched from offset 0
find_image_data_location_EndFromZero(data) ==
    LET start_offset == Find(data, MAGIC_START, 0)
        img_start == start_offset + Len(MAGIC_START)
        end_offset == Find(data, MAGIC_END, 0)
    IN  IF start_offset = -1 THEN <<None, None, None>>
        ELSE IF end_offset = -1 THEN <<None, None, None>>
        ELSE <<Some(img_start), Some(end_offset - img_start), Some(end_offset)>>

\* mutant of find_image_data_location: the end marker is searched one byte late
find_image_data_location_EndOneLate(data) ==
    LET start_offset == Find(data, MAGIC_START, 0)
        img_start == start_offset + Len(MAGIC_START)
        end_offset == Find(data, MAGIC_END, img_start + 1)
    IN  IF start_offset = -1 THEN <<None, None, None>>
        ELSE IF end_offset = -1 THEN <<None, None, None>>
        ELSE <<Some(img_start), Some(end_offset - img_start), Some(end_offset)>>

(* find_image_data_location, lines 80-95: <<image_start, image_size, end_offset>> *)
find_image_data_location(data) ==
    LET start_offset == Find(data, MAGIC_START, 0)
        img_start == start_offset + Len(MAGIC_START)
        end_offset == Find(data, MAGIC_END, img_start)
    IN  IF start_offset = -1 THEN <<None, None, None>>
        ELSE IF end_offset = -1 THEN <<None, None, None>>
        ELSE <<Some(img_start), Some(end_offset - img_start), Some(end_offset)>>

(* find_hash_location, lines 97-112: <<hash_start, hash_size>> *)
find_hash_location(data) ==
    LET start_offset == Find(data, HASH_MAGIC_START, 0)
        h_start == start_offset + Len(HASH_MAGIC_START)
        end_offset == Find(data, HASH_MAGIC_END, h_start)
    IN  IF start_offset = -1 THEN <<None, None>>
        ELSE IF end_offset = -1 THEN <<None, None>>
        ELSE <<Some(h_start), Some(end_offset - h_start)>>

---------------------------------------------------------------------------
(* Inputs: firmware templates and pixel buffers *)

\* longest run of padding bytes in front of or behind the image region
MaxPad == 1
\* largest excess of a reserved hash slot over the expected 8 bytes
MaxHashExtra == 1

Fill(n, b) == [k \in 1..n |-> b]

\* a hash region reserving n bytes of value b
HashRegion(n, b) == HASH_MAGIC_START \o Fill(n, b) \o HASH_MAGIC_END

HashSizes == (EXPECTED_HASH_SIZE - 1)..(EXPECTED_HASH_SIZE + MaxHashExtra)

\* length of a whole hash region whose slot has the expected size
HashRegionLen == Len(HASH_MAGIC_START) + EXPECTED_HASH_SIZE + Len(HASH_MAGIC_END)

\* what a template holds in front of and behind its image region
Chunks ==
    {Fill(n, 0) : n \in 0..MaxPad}
    \cup {HashRegion(n, 0) : n \in HashSizes}
    \cup {MAGIC_START, MAGIC_END, HASH_MAGIC_END,
          HASH_MAGIC_START \o Fill(EXPECTED_HASH_SIZE, 0)}

SlotLens == {0, 1, EXPECTED_HASH_SIZE, HashRegionLen}

\* what a template holds in its image slot (the image compiled into it)
Slots ==
    {Fill(n, 0) : n \in SlotLens}
    \cup {HashRegion(EXPECTED_HASH_SIZE, 0),
          HASH_MAGIC_START \o Fill(HashRegionLen - Len(HASH_MAGIC_START), 0),
          MAGIC_START \o Fill(HashRegionLen - Len(MAGIC_START), 0)}

ImageParts ==
    {<< >>}
    \cup {MAGIC_START \o s : s \in Slots}
    \cup {MAGIC_START \o s \o MAGIC_END : s \in Slots}

Templates == {pre \o img \o post : pre \in Chunks, img \in ImageParts, post \in Chunks}

\* a buffer of HashRegionLen bytes that starts with marker m
WithMarker(m) == m \o Fill(HashRegionLen - Len(m), 255)

PixelBuffers ==
    {Fill(n, 255) : n \in SlotLens}
    \cup {Fill(EXPECTED_HASH_SIZE, 0), HashRegion(EXPECTED_HASH_SIZE, 255)}
    \cup {WithMarker(m) : m \in {MAGIC_START, MAGIC_END, HASH_MAGIC_START, HASH_MAGIC_END}}

Callers == {"cli", "web"}

\* why generate_firmware_from_image can fail before it patches (lines 44-63)
WebFaults == {"none", "base64", "image", "template"}

\* the exception classes the failing step raises: base64.b64decode of a str,
\* Image.open and load of the decoded bytes, Path.read_bytes of the template
RaisedBy ==
    [base64 |-> {"binascii.Error", "ValueError"},
     image |-> {"UnidentifiedImageError", "OSError", "ValueError",
                "DecompressionBombError"},
     template |-> {"FileNotFoundError", "PermissionError", "IsADirectoryError"}]

\* the classes named by the except clause around the step (lines 46, 55, 29-33)
CaughtAt ==
    [base64 |-> {"ValueError", "binascii.Error"},
     image |-> {"Exception"},
     template |-> {"FileNotFoundError", "OSError"}]

\* the classes an exception of class exc is an instance of
InstanceOf(exc) ==
    {exc, "Exception"}
    \cup (IF exc = "binascii.Error" THEN {"ValueError"} ELSE {})
    \cup (IF exc \in {"UnidentifiedImageError", "FileNotFoundError",
                      "PermissionError", "IsADirectoryError"}
          THEN {"OSError"} ELSE {})

---------------------------------------------------------------------------
(* State of the badge table and of the requests outside a patcher run *)
NoBadges == << >>
NoReqs == << >>

\* no concurrent call is modelled
SharedIdle ==
    /\ heap = << >>
    /\ calls = << >>

\* no image is being encoded
EncodeIdle ==
    /\ decoded_image = << >>
    /\ target_width = 0 /\ target_height = 0
    /\ converted = None
    /\ enc_pc = "idle"

\* the patcher was not started from the command line
MainIdle ==
    /\ argc = 0
    /\ firmware_exists = TRUE /\ image_exists = TRUE
    /\ exit_status = None

\* no admin request is modelled
AdminIdle ==
    /\ gallery = << >>
    /\ admin_reqs = << >>

\* nothing is logged
LogIdle ==
    /\ log_entries = << >>
    /\ log_lock = None
    /\ log_threads = << >>
    /\ log_appended = << >>

\* no firmware is patched twice
RepatchIdle ==
    /\ second_image_data = << >>
    /\ repatched = [kind |-> "pending"]
    /\ repatch_pc = "idle"

\* no image is unlocked for any badge
UnlockIdle ==
    /\ unlocked = {}

\* no MAC address is being normalised
MacIdle ==
    /\ mac_value = [type |-> "NoneType"]
    /\ normalised = None /\ normalised_again = None
    /\ mac_pc = "idle"

BadgeIdle ==
    /\ badges = NoBadges
    /\ reqs = NoReqs

InitPatch ==
    /\ caller \in Callers
    /\ firmware_bytes \in Templates
    /\ new_image_data \in PixelBuffers
    /\ pc = "start"
    /\ firmware_data = << >>
    /\ image_start = None /\ image_size = None
    /\ hash_bytes = None
    /\ hash_start = None /\ hash_size = None
    /\ outcome = [kind |-> "pending"]
    /\ output_file = None
    /\ caller_result = [kind |-> "pending"]

patchLocals == <<image_start, image_size, hash_bytes, hash_start, hash_size>>
patchArgs == <<caller, firmware_bytes, new_image_data>>

---------------------------------------------------------------------------
(* generate_firmware_from_image, lines 44-63: decode the base64 payload,       *)
(* encode the image into new_image_data, load the template.  Any failure is  *)
(* raised as FirmwareGenerationError before the patcher is called.           *)
WebPrepare ==
    /\ pc = "start" /\ caller = "web"
    /\ \E fault \in WebFaults :
          IF fault = "none"
          THEN /\ pc' = "call"
               /\ caller_result' = caller_result
          ELSE /\ pc' = "done"
               /\ \E exc \in RaisedBy[fault] :
                     caller_result' =
                        IF InstanceOf(exc) \cap CaughtAt[fault] # {}
                        THEN [kind |-> "FirmwareGenerationError", cause |-> fault]
                        ELSE [kind |-> exc, cause |-> fault]
    /\ UNCHANGED <<outsidePatch, patchArgs, patchLocals, firmware_data, outcome, output_file>>

(* patch_firmware, lines 152-165: read the firmware file and call the patcher *)
CliRead ==
    /\ pc = "start" /\ caller = "cli"
    /\ pc' = "call"
    /\ UNCHANGED <<outsidePatch, patchArgs, patchLocals, firmware_data, outcome, output_file,
                   caller_result>>

(* patch_firmware_bytes, line 120: the private copy *)
PatchCopy ==
    /\ pc = "call"
    /\ firmware_data' = firmware_bytes
    /\ pc' = "find_image"
    /\ UNCHANGED <<outsidePatch, patchArgs, patchLocals, outcome, output_file, caller_result>>

(* lines 122-126 *)
PatchFindImage ==
    /\ pc = "find_image"
    /\ LET loc == find_image_data_location(firmware_data)
       IN  /\ image_start' = loc[1]
           /\ image_size' = loc[2]
           /\ IF loc[1] = None \/ loc[2] = None
              THEN /\ outcome' = [kind |-> "raise", error |-> "NoImageRegion"]
                   /\ pc' = "raised"
              ELSE /\ outcome' = outcome
                   /\ pc' = "check_size"
    /\ UNCHANGED <<outsidePatch, patchArgs, firmware_data, hash_bytes, hash_start, hash_size,
                   output_file, caller_result>>

\* mutant of PatchCheckSize: a pixel buffer shorter than the slot is accepted
PatchCheckSize_AllowShorter ==
    /\ pc = "check_size"
    /\ IF Len(new_image_data) > Val(image_size)
       THEN /\ outcome' = [kind |-> "raise", error |-> "ImageSizeMismatch",
                           expected |-> Val(image_size),
                           received |-> Len(new_image_data)]
            /\ pc' = "raised"
       ELSE /\ outcome' = outcome
            /\ pc' = "splice_image"
    /\ UNCHANGED <<outsidePatch, patchArgs, patchLocals, firmware_data, output_file,
                   caller_result>>

(* lines 128-131 *)
PatchCheckSize ==
    /\ pc = "check_size"
    /\ IF Len(new_image_data) # Val(image_size)
       THEN /\ outcome' = [kind |-> "raise", error |-> "ImageSizeMismatch",
                           expected |-> Val(image_size),
                           received |-> Len(new_image_data)]
            /\ pc' = "raised"
       ELSE /\ outcome' = outcome
            /\ pc' = "splice_image"
    /\ UNCHANGED <<outsidePatch, patchArgs, patchLocals, firmware_data, output_file, caller_result>>

(* line 133 *)
PatchSpliceImage ==
    /\ pc = "splice_image"
    /\ firmware_data' = SliceAssign(firmware_data, Val(image_start),
                                    Val(image_start) + Val(image_size), new_image_data)
    /\ pc' = "find_hash"
    /\ UNCHANGED <<outsidePatch, patchArgs, patchLocals, outcome, output_file, caller_result>>

\* mutant of PatchFindHash: a wrong hash size is only warned about and the
\* buffer, image already spliced, is returned
PatchFindHash_WarnOnly ==
    /\ pc = "find_hash"
    /\ hash_bytes' = Some(Sha256Prefix(new_image_data))
    /\ LET loc == find_hash_location(firmware_data)
       IN  /\ hash_start' = loc[1]
           /\ hash_size' = loc[2]
           /\ IF loc[1] # None /\ loc[2] # None /\ Val(loc[2]) = EXPECTED_HASH_SIZE
              THEN pc' = "splice_hash"
              ELSE pc' = "return"
    /\ UNCHANGED <<outsidePatch, patchArgs, firmware_data, image_start, image_size,
                   outcome, output_file, caller_result>>

\* mutant of PatchFindHash: only a hash slot that is too small is refused
PatchFindHash_TooSmallOnly ==
    /\ pc = "find_hash"
    /\ hash_bytes' = Some(Sha256Prefix(new_image_data))
    /\ LET loc == find_hash_location(firmware_data)
       IN  /\ hash_start' = loc[1]
           /\ hash_size' = loc[2]
           /\ IF loc[1] # None /\ loc[2] # None
              THEN IF Val(loc[2]) < EXPECTED_HASH_SIZE
                   THEN /\ outcome' = [kind |-> "raise", error |-> "HashSizeMismatch",
                                       expected |-> EXPECTED_HASH_SIZE,
                                       reserved |-> Val(loc[2])]
                        /\ pc' = "raised"
                   ELSE /\ outcome' = outcome
                        /\ pc' = "splice_hash"
              ELSE /\ outcome' = outcome
                   /\ pc' = "return"
    /\ UNCHANGED <<outsidePatch, patchArgs, firmware_data, image_start, image_size,
                   output_file, caller_result>>

(* lines 135-143 *)
PatchFindHash ==
    /\ pc = "find_hash"
    /\ hash_bytes' = Some(Sha256Prefix(new_image_data))
    /\ LET loc == find_hash_location(firmware_data)
       IN  /\ hash_start' = loc[1]
           /\ hash_size' = loc[2]
           /\ IF loc[1] # None /\ loc[2] # None
              THEN IF Val(loc[2]) # EXPECTED_HASH_SIZE
                   THEN /\ outcome' = [kind |-> "raise", error |-> "HashSizeMismatch",
                                       expected |-> EXPECTED_HASH_SIZE,
                                       reserved |-> Val(loc[2])]
                        /\ pc' = "raised"
                   ELSE /\ outcome' = outcome
                        /\ pc' = "splice_hash"
              ELSE /\ outcome' = outcome
                   /\ pc' = "return"
    /\ UNCHANGED <<outsidePatch, patchArgs, firmware_data, image_start, image_size,
                   output_file, caller_result>>

\* mutant of PatchSpliceHash: the hash is written at the marker's offset
PatchSpliceHash_AtMarker ==
    /\ pc = "splice_hash"
    /\ firmware_data' = SliceAssign(firmware_data,
                                    Val(hash_start) - Len(HASH_MAGIC_START),
                                    Val(hash_start) - Len(HASH_MAGIC_START)
                                        + EXPECTED_HASH_SIZE,
                                    Val(hash_bytes))
    /\ pc' = "return"
    /\ UNCHANGED <<outsidePatch, patchArgs, patchLocals, outcome, output_file,
                   caller_result>>

(* line 144 *)
PatchSpliceHash ==
    /\ pc = "splice_hash"
    /\ firmware_data' = SliceAssign(firmware_data, Val(hash_start),
                                    Val(hash_start) + EXPECTED_HASH_SIZE, Val(hash_bytes))
    /\ pc' = "return"
    /\ UNCHANGED <<outsidePatch, patchArgs, patchLocals, outcome, output_file, caller_result>>

(* line 146 *)
PatchReturn ==
    /\ pc = "return"
    /\ outcome' = [kind |-> "return",
                   patched |-> firmware_data,
                   image_start |-> Val(image_start),
                   image_size |-> Val(image_size),
                   hash_bytes |-> Val(hash_bytes),
                   hash_start |-> hash_start,
                   hash_size |-> hash_size]
    /\ pc' = "returned"
    /\ UNCHANGED <<outsidePatch, patchArgs, patchLocals, firmware_data, output_file, caller_result>>

---------------------------------------------------------------------------
(* patch_firmware (the command-line path), lines 166-218 *)

\* lines 166-170: RuntimeError is caught and reported as False
CliOnError ==
    /\ pc = "raised" /\ caller = "cli"
    /\ caller_result' = [kind |-> "return", value |-> FALSE]
    /\ pc' = "done"
    /\ UNCHANGED <<outsidePatch, patchArgs, patchLocals, firmware_data, outcome, output_file>>

\* lines 172-199: the patched bytes are written to the output path
CliWrite ==
    /\ pc = "returned" /\ caller = "cli"
    /\ output_file' = Some(outcome.patched)
    /\ pc' = "verify_image"
    /\ UNCHANGED <<outsidePatch, patchArgs, patchLocals, firmware_data, outcome, caller_result>>

\* lines 201-207
CliVerifyImage ==
    /\ pc = "verify_image"
    /\ LET verify_data == Slice(outcome.patched, outcome.image_start,
                                outcome.image_start + outcome.image_size)
       IN  IF verify_data = new_image_data
           THEN /\ pc' = "verify_hash"
                /\ caller_result' = caller_result
           ELSE /\ pc' = "done"
                /\ caller_result' = [kind |-> "return", value |-> FALSE]
    /\ UNCHANGED <<outsidePatch, patchArgs, patchLocals, firmware_data, outcome, output_file>>

\* lines 209-218
CliVerifyHash ==
    /\ pc = "verify_hash"
    /\ LET checked == outcome.hash_start # None
                        /\ outcome.hash_size = Some(EXPECTED_HASH_SIZE)
           verify_hash == Slice(outcome.patched, Val(outcome.hash_start),
                                Val(outcome.hash_start) + EXPECTED_HASH_SIZE)
       IN  IF checked /\ verify_hash # outcome.hash_bytes
           THEN caller_result' = [kind |-> "return", value |-> FALSE]
           ELSE caller_result' = [kind |-> "return", value |-> TRUE]
    /\ pc' = "done"
    /\ UNCHANGED <<outsidePatch, patchArgs, patchLocals, firmware_data, outcome, output_file>>

---------------------------------------------------------------------------
(* generate_firmware_from_image (the web path), lines 64-70 *)

\* mutant of WebOnError: the patcher's RuntimeError is not caught and escapes
WebOnError_Propagate ==
    /\ pc = "raised" /\ caller = "web"
    /\ caller_result' = [kind |-> "RuntimeError", cause |-> outcome.error]
    /\ pc' = "done"
    /\ UNCHANGED <<outsidePatch, patchArgs, patchLocals, firmware_data, outcome, output_file>>

\* lines 66-67: RuntimeError becomes FirmwareGenerationError
WebOnError ==
    /\ pc = "raised" /\ caller = "web"
    /\ caller_result' = [kind |-> "FirmwareGenerationError", cause |-> outcome.error]
    /\ pc' = "done"
    /\ UNCHANGED <<outsidePatch, patchArgs, patchLocals, firmware_data, outcome, output_file>>

\* lines 69-70: the patched bytes and the hash in uppercase hex are returned
WebReturn ==
    /\ pc = "returned" /\ caller = "web"
    /\ caller_result' = [kind |-> "return",
                         patched_bytes |-> outcome.patched,
                         firmware_hash |-> HexUpper(outcome.hash_bytes)]
    /\ pc' = "done"
    /\ UNCHANGED <<outsidePatch, patchArgs, patchLocals, firmware_data, outcome, output_file>>

(* One patcher run, from either caller; the badge table is not involved. *)
Init ==
    /\ InitPatch
    /\ badges = NoBadges
    /\ reqs = NoReqs
    /\ SharedIdle /\ EncodeIdle /\ MainIdle /\ AdminIdle /\ LogIdle /\ MacIdle
    /\ UnlockIdle
    /\ RepatchIdle

Next ==
    \/ WebPrepare \/ CliRead
    \/ PatchCopy \/ PatchFindImage \/ PatchCheckSize \/ PatchSpliceImage
    \/ PatchFindHash \/ PatchSpliceHash \/ PatchReturn
    \/ CliOnError \/ CliWrite \/ CliVerifyImage \/ CliVerifyHash
    \/ WebOnError \/ WebReturn

Spec == Init /\ [][Next]_vars

---------------------------------------------------------------------------
(* post_badge (app/routes/public.py) and the badges table (app/db.py).      *)
(* A string is a sequence of one-character strings; an absent or empty form *)
(* field is the empty sequence.                                             *)

MAX_BADGE_NAME_LENGTH == 64
DEFAULT_BADGE_TEXT_LOCATION == "center"
DEFAULT_IMAGE_COLOR == "black"
DEFAULT_IMAGE_FONT == "Awkward.ttf"

\* the characters matched by \s that the inputs use
Whitespace == {" ", "\t", "\n"}

\* the character class of _NAME_ALLOWED_RE
NameAllowed ==
    {"A", "B", "C", "D", "E", "F", "G", "H", "I", "J", "K", "L", "M",
     "N", "O", "P", "Q", "R", "S", "T", "U", "V", "W", "X", "Y", "Z",
     "a", "b", "c", "d", "e", "f", "g", "h", "i", "j", "k", "l", "m",
     "n", "o", "p", "q", "r", "s", "t", "u", "v", "w", "x", "y", "z",
     "0", "1", "2", "3", "4", "5", "6", "7", "8", "9",
     " ", ":", ".", ",", "!", "?", "\"", "'", "_", "-"}

RECURSIVE DropLeadingSpace(_)
DropLeadingSpace(v) ==
    IF v # << >> /\ Head(v) \in Whitespace THEN DropLeadingSpace(Tail(v)) ELSE v

\* re.sub(r"\s+", " ", value)
RECURSIVE CollapseSpace(_)
CollapseSpace(v) ==
    IF v = << >> THEN << >>
    ELSE IF Head(v) \in Whitespace
         THEN <<" ">> \o CollapseSpace(DropLeadingSpace(v))
         ELSE <<Head(v)>> \o CollapseSpace(Tail(v))

RECURSIVE DropTrailingSpace(_)
DropTrailingSpace(v) ==
    IF v # << >> /\ v[Len(v)] \in Whitespace
    THEN DropTrailingSpace(SubSeq(v, 1, Len(v) - 1))
    ELSE v

\* str.strip()
Strip(v) == DropTrailingSpace(DropLeadingSpace(v))

\* _clean_display_name
clean_display_name(value) ==
    IF value = << >> THEN << >> ELSE Strip(CollapseSpace(value))

\* _is_valid_display_name
is_valid_display_name(value) ==
    value # << >> /\ \A i \in 1..Len(value) : value[i] \in NameAllowed

\* _parse_coordinate: a missing or unparsable field is None, a number is
\* clamped at 0
parse_coordinate(raw) ==
    IF raw.kind = "number"
    THEN Some(IF raw.value < 0 THEN 0 ELSE raw.value)
    ELSE None

---------------------------------------------------------------------------
(* normalise_mac_address (app/utils.py).                                   *)
(*                                                                         *)
(* A str is a sequence of one-character strings and a bytes object a       *)
(* sequence of integers 0..255.  A Python int has no fixed width: it is    *)
(* held as its sign and the hexadecimal digits of its magnitude, most      *)
(* significant first and without leading zeros (0 has no digits).          *)

EXPECTED_MAC_BYTES == 8
EXPECTED_MAC_HEX_LENGTH == EXPECTED_MAC_BYTES * 2

LowerHexDigits == <<"a", "b", "c", "d", "e", "f">>

\* the characters _MAC_CLEAN_RE keeps: [0-9A-Fa-f]
HexCharacters ==
    {HexDigits[i] : i \in 1..16} \cup {LowerHexDigits[i] : i \in 1..6}

\* str.upper on one character that survived _MAC_CLEAN_RE
upper(ch) ==
    IF \E i \in 1..6 : LowerHexDigits[i] = ch
    THEN HexDigits[10 + CHOOSE i \in 1..6 : LowerHexDigits[i] = ch]
    ELSE ch

RECURSIVE lstrip(_)
lstrip(text) ==
    IF text # << >> /\ Head(text) \in Whitespace THEN lstrip(Tail(text)) ELSE text

RECURSIVE rstrip(_)
rstrip(text) ==
    IF text # << >> /\ text[Len(text)] \in Whitespace
    THEN rstrip(SubSeq(text, 1, Len(text) - 1))
    ELSE text

strip(text) == rstrip(lstrip(text))

\* _MAC_CLEAN_RE.sub("", text).upper()
clean_text(text) ==
    LET kept == SelectSeq(text, LAMBDA ch : ch \in HexCharacters)
    IN  [i \in 1..Len(kept) |-> upper(kept[i])]

\* mac_bytes.hex().upper()
bytes_to_hex(mac_bytes) ==
    [i \in 1..(2 * Len(mac_bytes)) |->
        IF i % 2 = 1 THEN HexDigits[(mac_bytes[(i + 1) \div 2] \div 16) + 1]
                     ELSE HexDigits[(mac_bytes[i \div 2] % 16) + 1]]

\* f"{value:016X}" of a non-negative int
format_016X(digits) ==
    IF Len(digits) >= EXPECTED_MAC_HEX_LENGTH
    THEN digits
    ELSE [i \in 1..(EXPECTED_MAC_HEX_LENGTH - Len(digits)) |-> "0"] \o digits

\* lines 55-61: an over-long digit string keeps its last 16 digits when the
\* digits in front of them are all "0"; Optional, None is the early return
trim_prefix_AnyPrefix(cleaned) ==
    IF Len(cleaned) > EXPECTED_MAC_HEX_LENGTH
    THEN Some(SubSeq(cleaned, Len(cleaned) - EXPECTED_MAC_HEX_LENGTH + 1, Len(cleaned)))
    ELSE Some(cleaned)
trim_prefix(cleaned) ==
    IF Len(cleaned) > EXPECTED_MAC_HEX_LENGTH
    THEN LET prefix == SubSeq(cleaned, 1, Len(cleaned) - EXPECTED_MAC_HEX_LENGTH)
             suffix == SubSeq(cleaned, Len(cleaned) - EXPECTED_MAC_HEX_LENGTH + 1,
                              Len(cleaned))
         IN  IF prefix = << >> \/ \A i \in 1..Len(prefix) : prefix[i] = "0"
             THEN Some(suffix)
             ELSE None
    ELSE Some(cleaned)

\* ":".join(cleaned[i : i + 2] for i in range(0, 16, 2))
RECURSIVE join_groups(_)
join_groups(cleaned) ==
    IF Len(cleaned) <= 2
    THEN cleaned
    ELSE SubSeq(cleaned, 1, 2) \o <<":">> \o join_groups(SubSeq(cleaned, 3, Len(cleaned)))

\* lines 35-53: the digit string of each accepted type, Optional
cleaned_of(value) ==
    CASE value.type = "NoneType" -> None
      [] value.type = "bytes" ->
            IF Len(value.data) # EXPECTED_MAC_BYTES
            THEN IF /\ Len(value.data) > EXPECTED_MAC_BYTES
                    /\ \A i \in 1..(Len(value.data) - EXPECTED_MAC_BYTES) :
                          value.data[i] = 0
                 THEN Some(bytes_to_hex(SubSeq(value.data,
                               Len(value.data) - EXPECTED_MAC_BYTES + 1,
                               Len(value.data))))
                 ELSE None
            ELSE Some(bytes_to_hex(value.data))
      [] value.type = "int" ->
            IF value.negative \/ Len(value.digits) > EXPECTED_MAC_HEX_LENGTH
            THEN None
            ELSE Some(format_016X(value.digits))
      [] value.type = "str" ->
            IF strip(value.text) = << >>
            THEN None
            ELSE Some(clean_text(strip(value.text)))

normalise_mac_address(value) ==
    LET first == cleaned_of(value)
    IN  IF first = None
        THEN None
        ELSE LET cleaned == trim_prefix(Val(first))
             IN  IF cleaned = None
                 THEN None
                 ELSE IF \/ Len(Val(cleaned)) # EXPECTED_MAC_HEX_LENGTH
                         \/ ~ \A i \in 1..Len(Val(cleaned)) :
                                \E d \in 1..16 : HexDigits[d] = Val(cleaned)[i]
                      THEN None
                      ELSE Some(join_groups(Val(cleaned)))

StrValue(text) == [type |-> "str", text |-> text]
BytesValue(data) == [type |-> "bytes", data |-> data]
IntValue(negative, digits) == [type |-> "int", negative |-> negative, digits |-> digits]

\* the inputs the model draws from
MacBodies ==
    { <<"0","0","1","1","2","2","3","3","4","4","5","5","6","6","7","7">>,
      <<"a","A","b","B","c","C","d","D","e","E","f","F","0","0","9","9">>,
      [i \in 1..16 |-> "0"],
      [i \in 1..16 |-> "F"] }
MacPrefixes == { << >>, <<"0">>, <<"0","0">>, <<"1">>, <<"1","0">>, <<"g">> }
MacSeparators == { << >>, <<":">>, <<"-">> }
MacPadding == { << >>, <<" ">> }

RECURSIVE separated(_, _)
separated(text, sep) ==
    IF Len(text) <= 2
    THEN text
    ELSE SubSeq(text, 1, 2) \o sep \o separated(SubSeq(text, 3, Len(text)), sep)

MacStrings ==
    { pad \o separated(prefix \o SubSeq(body, 1, Len(body) - cut), sep) \o pad :
        pad \in MacPadding, prefix \in MacPrefixes, body \in MacBodies,
        cut \in {0, 1}, sep \in MacSeparators }
    \cup { << >>, <<" ">>, <<"g">> }

MacByteBodies ==
    { [i \in 1..EXPECTED_MAC_BYTES |-> 0], [i \in 1..EXPECTED_MAC_BYTES |-> 255],
      [i \in 1..EXPECTED_MAC_BYTES |-> 17 * i] }
MacByteStrings ==
    { prefix \o SubSeq(body, 1 + cut, Len(body)) :
        prefix \in { << >>, <<0>>, <<0, 0>>, <<1>>, <<1, 0>> },
        body \in MacByteBodies, cut \in {0, 1} }

MacIntegers ==
    { IntValue(negative, digits) :
        negative \in BOOLEAN,
        digits \in { <<"1">>, <<"A","B">>, [i \in 1..16 |-> "F"],
                     <<"1">> \o [i \in 1..16 |-> "0"] } }
    \cup { IntValue(FALSE, << >>) }

MacValues ==
    {StrValue(text) : text \in MacStrings} \cup {BytesValue(data) : data \in MacByteStrings}
    \cup MacIntegers \cup {[type |-> "NoneType"]}

---------------------------------------------------------------------------
(* The tables post_badge reads and writes *)

\* the available_images rows fetch_profile returns, by label
Gallery ==
    [l \in {"cat", "owl"} |->
        [label |-> l,
         image_base64 |-> <<"png", l>>,
         image_mime_type |-> "image/png",
         image_color |-> IF l = "cat" THEN DEFAULT_IMAGE_COLOR ELSE "white",
         image_font |-> DEFAULT_IMAGE_FONT,
         requires_secret_code |-> (l = "owl")]]

\* Database.fetch_profile, db.py lines 126-152: the images with, for each, whether
\* the badge holds an unlock record for it
fetch_profile_images(unique_id) ==
    [l \in DOMAIN Gallery |->
        [label |-> Gallery[l].label,
         image_base64 |-> Gallery[l].image_base64,
         image_mime_type |-> Gallery[l].image_mime_type,
         image_color |-> Gallery[l].image_color,
         image_font |-> Gallery[l].image_font,
         requires_secret_code |-> Gallery[l].requires_secret_code,
         is_unlocked |-> <<unique_id, l>> \in unlocked]]

\* render_badge_image: the gallery image with the name drawn on it
render_badge_image(image_base64, attendee_name, font_filename, font_size, text_color, text_location) ==
    [source |-> image_base64, text |-> attendee_name, font |-> font_filename,
     size |-> font_size, color |-> text_color, location |-> text_location]

\* generate_firmware_from_image: the default template patched with the image,
\* and the hash of that image
generate_firmware_from_image(personalised) ==
    [firmware_base64 |-> [template |-> "default.bin", image |-> Some(personalised)],
     firmware_hash |-> [digest_of |-> Some(personalised)]]

\* _load_default_firmware_payload: the unpatched template and the hash "0" * 16,
\* written here as the digest of no image
load_default_firmware_payload ==
    [firmware_base64 |-> [template |-> "default.bin", image |-> None],
     firmware_hash |-> [digest_of |-> None]]

\* the Badge row create_or_update_badge inserts
NewBadge(name, mac_address) ==
    [name |-> name,
     mac_address |-> mac_address,
     firmware_base64 |-> load_default_firmware_payload.firmware_base64,
     firmware_hash |-> load_default_firmware_payload.firmware_hash,
     selected_image_label |-> None,
     selected_image_base64 |-> None,
     selected_image_mime_type |-> None,
     selected_image_color |-> None,
     selected_image_font |-> None,
     selected_font_size |-> None,
     selected_text_x |-> None,
     selected_text_y |-> None]

(* Inputs of the requests *)
Requests == {"r1", "r2"}
BadgeIds == {"b1"}
RequestIds == BadgeIds \cup {"nobody"}
RequestLabels == DOMAIN Gallery \cup {"gone"}
FontSizes == {16}
RawXs == {[kind |-> "missing", value |-> 0], [kind |-> "number", value |-> -3],
          [kind |-> "junk", value |-> 0]}
RawYs == {[kind |-> "number", value |-> 5]}
StoredNames == {<<"A">>, <<" ", "A">>}
OverrideNames == {<< >>, <<"B">>, <<"B", " ", "\t", "b", " ">>, <<"#">>}

IdleReq ==
    [pc |-> "idle", unique_id |-> "", profile |-> None, selected_image |-> None,
     font_size |-> 0, text_x_value |-> None, text_y_value |-> None,
     location_token |-> << >>, effective_name |-> << >>,
     personalised_base64 |-> None, firmware |-> None,
     response |-> [status |-> 0, error |-> ""]]

Respond(req, code, why) ==
    [req EXCEPT !.pc = "done", !.response = [status |-> code, error |-> why]]

\* the patcher's variables while requests are modelled
PatchIdle ==
    /\ caller = "web"
    /\ firmware_bytes = << >>
    /\ new_image_data = << >>
    /\ pc = "idle"
    /\ firmware_data = << >>
    /\ image_start = None /\ image_size = None
    /\ hash_bytes = None
    /\ hash_start = None /\ hash_size = None
    /\ outcome = [kind |-> "pending"]
    /\ output_file = None
    /\ caller_result = [kind |-> "pending"]

\* the badges the admin has created, none personalised yet; no request running
InitBadge ==
    /\ PatchIdle
    /\ SharedIdle /\ EncodeIdle /\ MainIdle /\ AdminIdle /\ LogIdle /\ MacIdle
    /\ UnlockIdle
    /\ RepatchIdle
    /\ badges \in [BadgeIds -> {NewBadge(n, None) : n \in StoredNames}]
    /\ reqs = [r \in Requests |-> IdleReq]

(* post_badge, lines 275-391: fetch_profile and the checks of the form *)
PostFetch(r) ==
    /\ reqs[r].pc = "idle"
    /\ \E unique_id \in RequestIds, image_label \in RequestLabels,
          font_size \in FontSizes, text_x \in RawXs, text_y \in RawYs,
          override_name \in OverrideNames, db_error \in BOOLEAN :
          LET display_name == clean_display_name(override_name)
              profile == badges[unique_id]
              text_x_value == parse_coordinate(text_x)
              text_y_value == parse_coordinate(text_y)
              location_token ==
                  IF text_x_value # None /\ text_y_value # None
                  THEN <<Val(text_x_value), Val(text_y_value)>>
                  ELSE <<DEFAULT_BADGE_TEXT_LOCATION>>
              stored_name == profile.name
              submitted_name == IF display_name # << >> THEN display_name
                                ELSE clean_display_name(stored_name)
              started == [reqs[r] EXCEPT
                            !.unique_id = unique_id,
                            !.profile = Some(profile),
                            !.selected_image =
                                Some(fetch_profile_images(unique_id)[image_label]),
                            !.font_size = font_size,
                            !.text_x_value = text_x_value,
                            !.text_y_value = text_y_value,
                            !.location_token = location_token,
                            !.effective_name = submitted_name,
                            !.pc = IF submitted_name # stored_name
                                   THEN "rename" ELSE "render"]
          IN  reqs' = [reqs EXCEPT ![r] =
                 IF db_error THEN Respond(reqs[r], 500, "load")
                 ELSE IF unique_id \notin DOMAIN badges
                      THEN Respond(reqs[r], 404, "badge")
                 ELSE IF image_label \notin DOMAIN Gallery
                      THEN Respond(reqs[r], 400, "image")
                 ELSE IF submitted_name = << >>
                      THEN Respond(reqs[r], 400, "blank")
                 ELSE IF Len(submitted_name) > MAX_BADGE_NAME_LENGTH
                      THEN Respond(reqs[r], 400, "long")
                 ELSE IF ~is_valid_display_name(submitted_name)
                      THEN Respond(reqs[r], 400, "characters")
                 ELSE started]
    /\ UNCHANGED <<badges, outsideBadge>>

(* Database.update_badge_name, db.py lines 456-465 *)
update_badge_name(rows, unique_id, name) ==
    IF unique_id \in DOMAIN rows
    THEN [rows EXCEPT ![unique_id].name = name]
    ELSE rows

(* post_badge, lines 393-409: the name is stored, in its own transaction *)
PostRename(r) ==
    /\ reqs[r].pc = "rename"
    /\ \E db_error \in BOOLEAN :
          IF db_error
          THEN /\ reqs' = [reqs EXCEPT ![r] = Respond(reqs[r], 500, "rename")]
               /\ badges' = badges
          ELSE /\ badges' = update_badge_name(badges, reqs[r].unique_id,
                                              reqs[r].effective_name)
               /\ reqs' = [reqs EXCEPT ![r].pc = "render"]
    /\ UNCHANGED outsideBadge

(* post_badge, lines 408-444: render_badge_image, generate_firmware_from_image *)
PostRender(r) ==
    /\ reqs[r].pc = "render"
    /\ \E render_fails \in BOOLEAN, firmware_fails \in BOOLEAN :
          LET image == Val(reqs[r].selected_image)
              personalised ==
                  render_badge_image(image.image_base64, reqs[r].effective_name,
                                     image.image_font, reqs[r].font_size,
                                     image.image_color, reqs[r].location_token)
          IN  reqs' = [reqs EXCEPT ![r] =
                 IF render_fails THEN Respond(reqs[r], 500, "render")
                 ELSE IF firmware_fails THEN Respond(reqs[r], 500, "firmware")
                 ELSE [reqs[r] EXCEPT
                          !.personalised_base64 = Some(personalised),
                          !.firmware = Some(generate_firmware_from_image(personalised)),
                          !.pc = "save"]]
    /\ UNCHANGED <<badges, outsideBadge>>

(* Database.save_badge_render, db.py lines 220-251 *)
save_badge_render(rows, unique_id, image, personalised, font_size, text_x, text_y, firmware) ==
    [rows EXCEPT ![unique_id] =
        [@ EXCEPT !.selected_image_label = Some(image.label),
                  !.selected_image_base64 = Some(personalised),
                  !.selected_image_mime_type = Some(image.image_mime_type),
                  !.selected_image_color = Some(image.image_color),
                  !.selected_image_font = Some(image.image_font),
                  !.selected_font_size = Some(font_size),
                  !.selected_text_x = text_x,
                  !.selected_text_y = text_y,
                  !.firmware_base64 = firmware.firmware_base64,
                  !.firmware_hash = firmware.firmware_hash]]

(* post_badge, lines 446-486: the render is stored and the browser redirected *)
PostSave(r) ==
    /\ reqs[r].pc = "save"
    /\ \E db_error \in BOOLEAN :
          IF db_error
          THEN /\ reqs' = [reqs EXCEPT ![r] = Respond(reqs[r], 500, "save")]
               /\ badges' = badges
          ELSE IF reqs[r].unique_id \notin DOMAIN badges
          THEN /\ reqs' = [reqs EXCEPT ![r] = Respond(reqs[r], 404, "save")]
               /\ badges' = badges
          ELSE /\ badges' = save_badge_render(badges, reqs[r].unique_id,
                                Val(reqs[r].selected_image),
                                Val(reqs[r].personalised_base64),
                                reqs[r].font_size, reqs[r].text_x_value,
                                reqs[r].text_y_value, Val(reqs[r].firmware))
               /\ reqs' = [reqs EXCEPT ![r] = Respond(reqs[r], 303, "")]
    /\ UNCHANGED outsideBadge

\* what the badge table's own steps leave alone
outsideBadgeRows == <<patchVars, sharedVars, encodeVars, mainVars, adminVars, logVars,
                      macVars, repatchVars>>

(* Database.delete_badge, db.py lines 467-473, from the admin page.  The    *)
(* unlock rows go with the badge (ondelete="CASCADE", models.py line 60)    *)
(* where the database enforces the foreign key, and stay where it does not. *)
AdminDeleteBadge(unique_id) ==
    /\ unique_id \in DOMAIN badges
    /\ badges' = [b \in DOMAIN badges \ {unique_id} |-> badges[b]]
    /\ unlocked' \in {unlocked, {u \in unlocked : u[1] # unique_id}}
    /\ UNCHANGED <<reqs, outsideBadgeRows>>

(* Database.mark_image_unlocked, db.py lines 383-401 *)
MarkImageUnlocked(unique_id, image_label) ==
    /\ unlocked' = IF unique_id \in DOMAIN badges
                   THEN unlocked \cup {<<unique_id, image_label>>}
                   ELSE unlocked
    /\ UNCHANGED outsideUnlock

\* mutant of create_or_update_badge: an update also puts the default firmware back
create_or_update_badge_ResetFirmware(rows, unique_id, name, mac_address) ==
    IF unique_id \notin DOMAIN rows
    THEN [b \in DOMAIN rows \cup {unique_id} |->
            IF b = unique_id THEN NewBadge(name, Some(mac_address)) ELSE rows[b]]
    ELSE [rows EXCEPT ![unique_id].name = name,
                      ![unique_id].mac_address = Some(mac_address),
                      ![unique_id].firmware_base64 =
                          load_default_firmware_payload.firmware_base64]

\* db.create_or_update_badge, db.py lines 414-432
create_or_update_badge(rows, unique_id, name, mac_address) ==
    IF unique_id \notin DOMAIN rows
    THEN [b \in DOMAIN rows \cup {unique_id} |->
            IF b = unique_id THEN NewBadge(name, Some(mac_address)) ELSE rows[b]]
    ELSE [rows EXCEPT ![unique_id].name = name,
                      ![unique_id].mac_address = Some(mac_address)]

\* the MAC address fields the admin submits
BadgeMacForms ==
    { <<"0","0",":","1","1",":","2","2",":","3","3",":","4","4",":","5","5",":",
        "6","6",":","7","7">>,
      <<"g">> }

(* admin_create_badge_api past the gate, admin_api.py lines 54-105, on the   *)
(* one badge of this table: normalise_mac_address, then                      *)
(* Database.create_or_update_badge (db.py lines 414-432)                     *)
AdminSaveBadge(unique_id) ==
    /\ \E name \in StoredNames, form \in BadgeMacForms, db_error \in BOOLEAN :
          LET mac_address == normalise_mac_address(StrValue(strip(form)))
          IN  badges' =
                 IF mac_address = None \/ db_error
                 THEN badges
                 ELSE create_or_update_badge(badges, unique_id, name, Val(mac_address))
    /\ UNCHANGED <<reqs, unlockVars, outsideBadgeRows>>

NextBadge ==
    \/ \E r \in Requests : PostFetch(r)
    \/ \E r \in Requests : PostRename(r)
    \/ \E r \in Requests : PostRender(r)
    \/ \E r \in Requests : PostSave(r)
    \/ \E b \in BadgeIds : AdminDeleteBadge(b)

(* Concurrent personalisation requests on the badges table. *)
SpecBadge == InitBadge /\ [][NextBadge]_vars

\* one personalisation request at a time, with the admin creating, updating
\* and deleting the badge and images being unlocked for it
NextBadgeTable ==
    \/ PostFetch("r1")
    \/ PostRename("r1")
    \/ PostRender("r1")
    \/ PostSave("r1")
    \/ \E b \in BadgeIds : AdminDeleteBadge(b)
    \/ \E b \in BadgeIds : AdminSaveBadge(b)
    \/ \E b \in BadgeIds : MarkImageUnlocked(b, "owl")

(* Every operation on the badge table, around one personalisation request. *)
SpecBadgeTable == InitBadge /\ [][NextBadgeTable]_vars

---------------------------------------------------------------------------
(* patch_firmware_bytes as a function of its two arguments, lines 115-146: *)
(* what one call computes when nothing else touches its objects.           *)
patch_firmware_bytes(fw, px) ==
    LET loc == find_image_data_location(fw)
    IN  IF loc[1] = None \/ loc[2] = None
        THEN [kind |-> "raise", error |-> "NoImageRegion"]
        ELSE IF Len(px) # Val(loc[2])
        THEN [kind |-> "raise", error |-> "ImageSizeMismatch",
              expected |-> Val(loc[2]), received |-> Len(px)]
        ELSE LET spliced == SliceAssign(fw, Val(loc[1]), Val(loc[1]) + Val(loc[2]), px)
                 digest == Sha256Prefix(px)
                 hloc == find_hash_location(spliced)
             IN  IF hloc[1] # None /\ hloc[2] # None
                 THEN IF Val(hloc[2]) # EXPECTED_HASH_SIZE
                      THEN [kind |-> "raise", error |-> "HashSizeMismatch",
                            expected |-> EXPECTED_HASH_SIZE, reserved |-> Val(hloc[2])]
                      ELSE [kind |-> "return",
                            patched |-> SliceAssign(spliced, Val(hloc[1]),
                                                    Val(hloc[1]) + EXPECTED_HASH_SIZE,
                                                    digest),
                            image_start |-> Val(loc[1]), image_size |-> Val(loc[2]),
                            hash_bytes |-> digest,
                            hash_start |-> hloc[1], hash_size |-> hloc[2]]
                 ELSE [kind |-> "return", patched |-> spliced,
                       image_start |-> Val(loc[1]), image_size |-> Val(loc[2]),
                       hash_bytes |-> digest,
                       hash_start |-> hloc[1], hash_size |-> hloc[2]]

---------------------------------------------------------------------------
(* Concurrent calls of patch_firmware_bytes.  Python passes references: the *)
(* arguments firmware_bytes and new_image_data name objects the caller      *)
(* keeps (the cached template, the pixel buffer), bytearray(firmware_bytes) *)
(* and bytes(firmware_data) make new objects, and a slice assignment writes *)
(* into the object the name refers to.  heap holds the bytes of each        *)
(* object; a call's names hold object ids.                                  *)

CallIds == {"c1", "c2"}
TemplateObjects == {"t1", "t2"}
PixelObjects == {"p1", "p2"}
\* the object bytearray(...) makes in call c and the one bytes(...) makes
BufferObject == [c1 |-> "d1", c2 |-> "d2"]
ResultObject == [c1 |-> "r1", c2 |-> "r2"]

\* templates and pixel buffers of the concurrent calls
SharedSlotLens == {EXPECTED_HASH_SIZE, HashRegionLen}
SharedTemplates ==
    {pre \o MAGIC_START \o Fill(n, 0) \o MAGIC_END \o post :
        pre \in {Fill(0, 0), Fill(MaxPad, 0)},
        n \in SharedSlotLens,
        post \in {Fill(0, 0), HashRegion(EXPECTED_HASH_SIZE, 0),
                  HashRegion(EXPECTED_HASH_SIZE + MaxHashExtra, 0)}}
SharedPixelBuffers ==
    {Fill(EXPECTED_HASH_SIZE, 255), Fill(EXPECTED_HASH_SIZE, 0),
     HashRegion(EXPECTED_HASH_SIZE, 255)}

NewCall(template, pixels) ==
    [pc |-> "call", firmware_bytes |-> template, new_image_data |-> pixels,
     firmware_data |-> None,
     image_start |-> None, image_size |-> None, hash_bytes |-> None,
     hash_start |-> None, hash_size |-> None,
     outcome |-> [kind |-> "pending"]]

\* two calls about to start; they may share the template, the pixel buffer,
\* both or neither
InitShared ==
    /\ PatchIdle
    /\ BadgeIdle /\ EncodeIdle /\ MainIdle /\ AdminIdle /\ LogIdle /\ MacIdle
    /\ UnlockIdle
    /\ RepatchIdle
    /\ \E t1 \in SharedTemplates, t2 \in SharedTemplates,
          p1 \in SharedPixelBuffers, p2 \in SharedPixelBuffers :
          heap = [t1 |-> t1, t2 |-> t2, p1 |-> p1, p2 |-> p2]
    /\ \E t \in TemplateObjects, p \in PixelObjects :
          calls = [c1 |-> NewCall("t1", "p1"), c2 |-> NewCall(t, p)]

\* mutant of CallCopy: no copy is made, firmware_data names the caller's object
CallCopy_Alias(c) ==
    /\ calls[c].pc = "call"
    /\ calls' = [calls EXCEPT ![c].firmware_data = Some(calls[c].firmware_bytes),
                              ![c].pc = "find_image"]
    /\ UNCHANGED <<heap, outsideShared>>

(* line 120: firmware_data = bytearray(firmware_bytes) *)
CallCopy(c) ==
    /\ calls[c].pc = "call"
    /\ heap' = heap @@ (BufferObject[c] :> heap[calls[c].firmware_bytes])
    /\ calls' = [calls EXCEPT ![c].firmware_data = Some(BufferObject[c]),
                              ![c].pc = "find_image"]
    /\ UNCHANGED outsideShared

(* lines 122-131: locate the image slot and compare the sizes *)
CallFindImage(c) ==
    /\ calls[c].pc = "find_image"
    /\ LET loc == find_image_data_location(heap[Val(calls[c].firmware_data)])
           received == Len(heap[calls[c].new_image_data])
       IN  calls' =
             [calls EXCEPT
                ![c].image_start = loc[1],
                ![c].image_size = loc[2],
                ![c].outcome =
                    IF loc[1] = None \/ loc[2] = None
                    THEN [kind |-> "raise", error |-> "NoImageRegion"]
                    ELSE IF received # Val(loc[2])
                    THEN [kind |-> "raise", error |-> "ImageSizeMismatch",
                          expected |-> Val(loc[2]), received |-> received]
                    ELSE @,
                ![c].pc = IF loc[1] = None \/ loc[2] = None \/ received # Val(loc[2])
                          THEN "raised" ELSE "splice_image"]
    /\ UNCHANGED <<heap, outsideShared>>

(* line 133 *)
CallSpliceImage(c) ==
    /\ calls[c].pc = "splice_image"
    /\ LET d == Val(calls[c].firmware_data)
           lo == Val(calls[c].image_start)
       IN  heap' = [heap EXCEPT ![d] = SliceAssign(@, lo, lo + Val(calls[c].image_size),
                                                    heap[calls[c].new_image_data])]
    /\ calls' = [calls EXCEPT ![c].pc = "find_hash"]
    /\ UNCHANGED outsideShared

\* mutant of CallFindHash: the hash is taken over the whole patched firmware
CallFindHash_OfFirmware(c) ==
    /\ calls[c].pc = "find_hash"
    /\ LET loc == find_hash_location(heap[Val(calls[c].firmware_data)])
           found == loc[1] # None /\ loc[2] # None
       IN  calls' =
             [calls EXCEPT
                ![c].hash_bytes = Some(Sha256Prefix(heap[Val(calls[c].firmware_data)])),
                ![c].hash_start = loc[1],
                ![c].hash_size = loc[2],
                ![c].outcome =
                    IF found /\ Val(loc[2]) # EXPECTED_HASH_SIZE
                    THEN [kind |-> "raise", error |-> "HashSizeMismatch",
                          expected |-> EXPECTED_HASH_SIZE, reserved |-> Val(loc[2])]
                    ELSE @,
                ![c].pc = IF ~found THEN "return"
                          ELSE IF Val(loc[2]) # EXPECTED_HASH_SIZE THEN "raised"
                          ELSE "splice_hash"]
    /\ UNCHANGED <<heap, outsideShared>>

(* lines 135-143 *)
CallFindHash(c) ==
    /\ calls[c].pc = "find_hash"
    /\ LET loc == find_hash_location(heap[Val(calls[c].firmware_data)])
           found == loc[1] # None /\ loc[2] # None
       IN  calls' =
             [calls EXCEPT
                ![c].hash_bytes = Some(Sha256Prefix(heap[calls[c].new_image_data])),
                ![c].hash_start = loc[1],
                ![c].hash_size = loc[2],
                ![c].outcome =
                    IF found /\ Val(loc[2]) # EXPECTED_HASH_SIZE
                    THEN [kind |-> "raise", error |-> "HashSizeMismatch",
                          expected |-> EXPECTED_HASH_SIZE, reserved |-> Val(loc[2])]
                    ELSE @,
                ![c].pc = IF ~found THEN "return"
                          ELSE IF Val(loc[2]) # EXPECTED_HASH_SIZE THEN "raised"
                          ELSE "splice_hash"]
    /\ UNCHANGED <<heap, outsideShared>>

(* line 144 *)
CallSpliceHash(c) ==
    /\ calls[c].pc = "splice_hash"
    /\ LET d == Val(calls[c].firmware_data)
           lo == Val(calls[c].hash_start)
       IN  heap' = [heap EXCEPT ![d] = SliceAssign(@, lo, lo + EXPECTED_HASH_SIZE,
                                                    Val(calls[c].hash_bytes))]
    /\ calls' = [calls EXCEPT ![c].pc = "return"]
    /\ UNCHANGED outsideShared

(* line 146: bytes(firmware_data) and the five values beside it *)
CallReturn(c) ==
    /\ calls[c].pc = "return"
    /\ heap' = heap @@ (ResultObject[c] :> heap[Val(calls[c].firmware_data)])
    /\ calls' = [calls EXCEPT
                   ![c].outcome = [kind |-> "return",
                                   patched |-> ResultObject[c],
                                   image_start |-> Val(calls[c].image_start),
                                   image_size |-> Val(calls[c].image_size),
                                   hash_bytes |-> Val(calls[c].hash_bytes),
                                   hash_start |-> calls[c].hash_start,
                                   hash_size |-> calls[c].hash_size],
                   ![c].pc = "returned"]
    /\ UNCHANGED outsideShared

NextShared ==
    \/ \E c \in CallIds : CallCopy(c)
    \/ \E c \in CallIds : CallFindImage(c)
    \/ \E c \in CallIds : CallSpliceImage(c)
    \/ \E c \in CallIds : CallFindHash(c)
    \/ \E c \in CallIds : CallSpliceHash(c)
    \/ \E c \in CallIds : CallReturn(c)

(* Two calls interleaved step by step. *)
SpecShared == InitShared /\ [][NextShared]_vars

---------------------------------------------------------------------------
(* _image_to_pixel_data, patch_firmware_image.py lines 28-51.  An image is  *)
(* a record of its mode, its size and its pixels, a function from <<x, y>>  *)
(* (x to the right, y downwards, both from 0) to the pixel's value: a       *)
(* tuple of its bands: <<l>> with the luminance 0..255 in mode "L",         *)
(* <<r, g, b>> in mode "RGB", <<0>> or <<255>> in mode "1".                 *)

threshold == 128
TARGET_WIDTH == 240
TARGET_HEIGHT == 96

Positions(w, h) == (0..(w - 1)) \X (0..(h - 1))

\* mutant of resize: an image is only ever shrunk, never enlarged
resize_ShrinkOnly(im, w, h) ==
    LET nw == IF w < im.width THEN w ELSE im.width
        nh == IF h < im.height THEN h ELSE im.height
    IN  [mode |-> im.mode, width |-> nw, height |-> nh,
         pixels |-> [p \in Positions(nw, nh) |->
                       im.pixels[<<((2 * p[1] + 1) * im.width) \div (2 * nw),
                                   ((2 * p[2] + 1) * im.height) \div (2 * nh)>>]]]

\* img.resize((w, h), Image.Resampling.NEAREST), line 30: every pixel of the
\* result is the source pixel under its centre
resize(im, w, h) ==
    [mode |-> im.mode, width |-> w, height |-> h,
     pixels |-> [p \in Positions(w, h) |->
                   im.pixels[<<((2 * p[1] + 1) * im.width) \div (2 * w),
                               ((2 * p[2] + 1) * im.height) \div (2 * h)>>]]]

\* the luminance Pillow gives an RGB pixel (ITU-R 601-2, 16-bit fixed point)
luma(rgb) == (rgb[1] * 19595 + rgb[2] * 38470 + rgb[3] * 7471 + 32768) \div 65536

\* img.convert("L"), line 32
convert_L(im) ==
    [mode |-> "L", width |-> im.width, height |-> im.height,
     pixels |-> [p \in DOMAIN im.pixels |->
                   IF im.mode = "RGB" THEN <<luma(im.pixels[p])>> ELSE im.pixels[p]]]

\* mutant of point_threshold: luminance 128 counts as on
point_threshold_AtLeast(im) ==
    [mode |-> "1", width |-> im.width, height |-> im.height,
     pixels |-> [p \in DOMAIN im.pixels |->
                   IF im.pixels[p][1] >= threshold THEN <<255>> ELSE <<0>>]]

\* img.point(lambda x: 255 if x > threshold else 0, mode="1"), lines 33-34
point_threshold(im) ==
    [mode |-> "1", width |-> im.width, height |-> im.height,
     pixels |-> [p \in DOMAIN im.pixels |->
                   IF im.pixels[p][1] > threshold THEN <<255>> ELSE <<0>>]]

Pow2(n) == <<1, 2, 4, 8, 16, 32, 64, 128>>[n + 1]

\* mutant of bit_mask: the leftmost pixel goes to the least significant bit
bit_mask_LsbFirst(im, y, byte_x, bit) ==
    LET x == byte_x * 8 + bit
    IN  IF x < im.width /\ im.pixels[<<x, y>>][1] > 0 THEN Pow2(bit) ELSE 0

\* lines 44-48: what pixel number bit of the byte adds to byte_val
bit_mask(im, y, byte_x, bit) ==
    LET x == byte_x * 8 + bit
    IN  IF x < im.width /\ im.pixels[<<x, y>>][1] > 0 THEN Pow2(7 - bit) ELSE 0

\* lines 42-49: one byte of the row, its eight bits or-ed together
byte_val(im, y, byte_x) ==
    bit_mask(im, y, byte_x, 0) + bit_mask(im, y, byte_x, 1)
    + bit_mask(im, y, byte_x, 2) + bit_mask(im, y, byte_x, 3)
    + bit_mask(im, y, byte_x, 4) + bit_mask(im, y, byte_x, 5)
    + bit_mask(im, y, byte_x, 6) + bit_mask(im, y, byte_x, 7)

\* lines 28-51: (pixel_data, width, height)
image_to_pixel_data(im, tw, th) ==
    LET resized == IF <<im.width, im.height>> # <<tw, th>> THEN resize(im, tw, th) ELSE im
        bw == point_threshold(convert_L(resized))
        width == bw.width
        height == bw.height
        bytes_per_row == (width + 7) \div 8
    IN  [pixel_data |-> [k \in 1..(height * bytes_per_row) |->
                           byte_val(bw, (k - 1) \div bytes_per_row,
                                    (k - 1) % bytes_per_row)],
         width |-> width, height |-> height]

(* Inputs of the encoder *)
\* widest and tallest image and target that are enumerated in full
MaxWidth == 9
MaxHeight == 2

\* one pixel of every luminance
GreyImages ==
    {[mode |-> "L", width |-> 1, height |-> 1, pixels |-> [p \in Positions(1, 1) |-> <<v>>]] :
        v \in 0..255}

Colours ==
    {<<0, 0, 0>>, <<128, 128, 128>>, <<129, 129, 129>>, <<255, 255, 255>>,
     <<255, 0, 0>>, <<0, 255, 0>>, <<0, 0, 255>>, <<255, 0, 255>>}

ColourImages ==
    {[mode |-> "RGB", width |-> 1, height |-> 1, pixels |-> [p \in Positions(1, 1) |-> c]] :
        c \in Colours}

\* a w x h image of luminance bg with luminance fg at one position
SpotImage(w, h, spot, bg, fg) ==
    [mode |-> "L", width |-> w, height |-> h,
     pixels |-> [p \in Positions(w, h) |-> IF p = spot THEN <<fg>> ELSE <<bg>>]]

Shades == {<<threshold, threshold + 1>>, <<threshold + 1, threshold>>, <<255, 255>>}

SpotImagesOf(w, h) ==
    {SpotImage(w, h, spot, s[1], s[2]) : spot \in Positions(w, h), s \in Shades}

SpotImages ==
    UNION {SpotImagesOf(w, h) : w \in 1..MaxWidth, h \in 1..MaxHeight}

SmallTargets == (1..MaxWidth) \X (1..MaxHeight)

\* images already of the badge's size
BadgeSizeImages ==
    {SpotImage(TARGET_WIDTH, TARGET_HEIGHT, spot, threshold, threshold + 1) :
        spot \in {<<0, 0>>, <<7, 0>>, <<8, 1>>, <<TARGET_WIDTH - 1, TARGET_HEIGHT - 1>>}}

\* images resized to the badge's size
ResizedToBadge ==
    SpotImagesOf(2, 2) \cup SpotImagesOf(3, 1)
    \cup {SpotImage(TARGET_WIDTH + 1, TARGET_HEIGHT, <<TARGET_WIDTH, 0>>, threshold, 255)}

EncoderInputs ==
    ((GreyImages \cup ColourImages) \X {<<1, 1>>, <<MaxWidth, MaxHeight>>})
    \cup (SpotImages \X SmallTargets)
    \cup ((BadgeSizeImages \cup ResizedToBadge) \X {<<TARGET_WIDTH, TARGET_HEIGHT>>})

InitEncode ==
    /\ PatchIdle /\ BadgeIdle /\ SharedIdle /\ MainIdle /\ AdminIdle /\ LogIdle /\ MacIdle
    /\ UnlockIdle
    /\ RepatchIdle
    /\ \E input \in EncoderInputs :
          /\ decoded_image = input[1]
          /\ target_width = input[2][1]
          /\ target_height = input[2][2]
    /\ converted = None
    /\ enc_pc = "decoded"

(* convert_png_bytes_to_pixel_data, lines 60-61: the decoded image is encoded *)
Encode ==
    /\ enc_pc = "decoded"
    /\ converted' = Some(image_to_pixel_data(decoded_image, target_width, target_height))
    /\ enc_pc' = "encoded"
    /\ UNCHANGED <<decoded_image, target_width, target_height, outsideEncode>>

(* generate_firmware_from_image, firmware_builder.py lines 49-61: the web    *)
(* path encodes for TARGET_WIDTH x TARGET_HEIGHT and checks the size returned *)
WebCheckDimensions ==
    /\ enc_pc = "encoded"
    /\ <<target_width, target_height>> = <<TARGET_WIDTH, TARGET_HEIGHT>>
    /\ enc_pc' = IF <<Val(converted).width, Val(converted).height>>
                      # <<TARGET_WIDTH, TARGET_HEIGHT>>
                 THEN "dimension_error"
                 ELSE "accepted"
    /\ UNCHANGED <<decoded_image, target_width, target_height, converted, outsideEncode>>

NextEncode == Encode \/ WebCheckDimensions

(* One image through the encoder. *)
SpecEncode == InitEncode /\ [][NextEncode]_vars

---------------------------------------------------------------------------
(* main, patch_firmware_image.py lines 220-294: the command line.  The      *)
(* firmware file holds firmware_bytes and the image file encodes to         *)
(* new_image_data; a file that does not exist holds nothing.                *)

\* most command-line words, the program's name included
MaxArgc == 5

InitMain ==
    /\ BadgeIdle /\ SharedIdle /\ EncodeIdle /\ AdminIdle /\ LogIdle /\ MacIdle
    /\ UnlockIdle
    /\ RepatchIdle
    /\ caller = "cli"
    /\ pc = "main"
    /\ argc \in 1..MaxArgc
    /\ firmware_exists \in BOOLEAN
    /\ image_exists \in BOOLEAN
    /\ firmware_bytes \in (IF firmware_exists THEN Templates ELSE {<< >>})
    /\ new_image_data \in (IF image_exists THEN PixelBuffers ELSE {<< >>})
    /\ exit_status = None
    /\ firmware_data = << >>
    /\ image_start = None /\ image_size = None
    /\ hash_bytes = None
    /\ hash_start = None /\ hash_size = None
    /\ outcome = [kind |-> "pending"]
    /\ output_file = None
    /\ caller_result = [kind |-> "pending"]

outsideMain == <<badgeVars, sharedVars, encodeVars, adminVars, logVars, macVars, repatchVars, unlockVars>>
mainFrame == <<patchArgs, patchLocals, firmware_data, outcome, output_file, caller_result,
               argc, firmware_exists, image_exists>>

(* lines 228-264: up to three arguments are accepted, more print the usage *)
MainParseArgs ==
    /\ pc = "main"
    /\ IF argc \in 1..4
       THEN /\ pc' = "check_files"
            /\ exit_status' = exit_status
       ELSE /\ pc' = "exited"
            /\ exit_status' = Some(1)
    /\ UNCHANGED <<mainFrame, outsideMain>>

(* lines 266-272 *)
MainCheckFiles ==
    /\ pc = "check_files"
    /\ IF ~firmware_exists \/ ~image_exists
       THEN /\ pc' = "exited"
            /\ exit_status' = Some(1)
       ELSE /\ pc' = "convert"
            /\ exit_status' = exit_status
    /\ UNCHANGED <<mainFrame, outsideMain>>

(* lines 278-283: the image is encoded and patch_firmware is called; an     *)
(* image that cannot be decoded raises, and the uncaught exception ends the *)
(* interpreter with status 1                                                *)
MainConvert ==
    /\ pc = "convert"
    /\ \E decodable \in BOOLEAN :
          IF decodable
          THEN /\ pc' = "start"
               /\ exit_status' = exit_status
          ELSE /\ pc' = "exited"
               /\ exit_status' = Some(1)
    /\ UNCHANGED <<mainFrame, outsideMain>>

\* mutant of MainExit: the result of patch_firmware is ignored
MainExit_AlwaysZero ==
    /\ pc = "done" /\ caller = "cli"
    /\ exit_status' = Some(0)
    /\ pc' = "exited"
    /\ UNCHANGED <<mainFrame, outsideMain>>

(* lines 285-294: sys.exit(0) if success else sys.exit(1) *)
MainExit ==
    /\ pc = "done" /\ caller = "cli"
    /\ exit_status' = Some(IF caller_result.value THEN 0 ELSE 1)
    /\ pc' = "exited"
    /\ UNCHANGED <<mainFrame, outsideMain>>

NextMain ==
    \/ MainParseArgs \/ MainCheckFiles \/ MainConvert
    \/ CliRead
    \/ PatchCopy \/ PatchFindImage \/ PatchCheckSize \/ PatchSpliceImage
    \/ PatchFindHash \/ PatchSpliceHash \/ PatchReturn
    \/ CliOnError \/ CliWrite \/ CliVerifyImage \/ CliVerifyHash
    \/ MainExit

(* One run of the command-line program. *)
SpecMain == InitMain /\ [][NextMain]_vars

---------------------------------------------------------------------------
(* The admin routes: the pages router of routes/admin_pages.py, whose       *)
(* dependencies=[Depends(verify_credentials)] runs the gate before every    *)
(* route of the router, and the two endpoints of routes/admin_api.py, each  *)
(* with the parameter _credentials=Depends(verify_credentials).  A request  *)
(* first passes the dependency and then runs the route's function.          *)

\* Settings.basic_auth_username and basic_auth_password, both non-empty
basic_auth_username == "admin"
basic_auth_password == "hunter2"

\* the Authorization header: absent, or a username and a password
CredentialsSent ==
    {None} \cup {Some([username |-> u, password |-> p]) :
                    u \in {basic_auth_username, "guest", ""},
                    p \in {basic_auth_password, "guess", ""}}

\* secrets.compare_digest on two strings
compare_digest(a, b) == a = b

\* mutant of credentials_valid: only the username is compared
credentials_valid_UsernameOnly(credentials) ==
    IF credentials = None
    THEN FALSE
    ELSE compare_digest(Val(credentials).username, basic_auth_username)

\* dependencies.py lines 24-37
credentials_valid(credentials) ==
    IF credentials = None
    THEN FALSE
    ELSE LET correct_username ==
                 compare_digest(Val(credentials).username, basic_auth_username)
             correct_password ==
                 compare_digest(Val(credentials).password, basic_auth_password)
         IN  correct_username /\ correct_password

PagesRoutes ==
    {"admin_index", "admin_logs_page", "admin_images_form", "admin_images_upload",
     "admin_images_update", "admin_images_delete", "admin_badges_form",
     "admin_badges_submit", "admin_badges_delete"}
ApiRoutes == {"admin_create_badge_api", "admin_upload_badge_image_api"}
AdminRoutes == PagesRoutes \cup ApiRoutes

AdminRequests == {"a1", "a2"}
AdminLabels == {"cat", "new"}
AdminBadgeIds == {"b1", "b2", "b3"}
\* the MAC address fields submitted: one address bare and with colons, a second
\* address in lower case, and a field that is no address
AdminMacs ==
    { <<"0","0","1","1","2","2","3","3","4","4","5","5","6","6","7","7">>,
      <<"0","0",":","1","1",":","2","2",":","3","3",":","4","4",":","5","5",":",
        "6","6",":","7","7">>,
      [i \in 1..16 |-> "f"],
      <<"g">> }
AdminNames == {<<"Z">>}
\* what a write handler meets: a valid form, an invalid one, a database error
Faults == {"none", "invalid", "database"}

IdleAdminReq ==
    [pc |-> "idle", route |-> "", credentials |-> None, status |-> 0, touched |-> {},
     error |-> ""]

\* a gallery row as store_available_image writes it, db.py lines 253-290
GalleryRow(image_base64, image_mime_type, image_color, image_font, secret_code, locked) ==
    [image_base64 |-> image_base64,
     image_mime_type |-> image_mime_type,
     image_color |-> IF image_color = "" THEN DEFAULT_IMAGE_COLOR ELSE image_color,
     image_font |-> IF image_font = "" THEN DEFAULT_IMAGE_FONT ELSE image_font,
     secret_code |-> secret_code,
     requires_secret_code |-> locked,
     display_order |-> 0]

InitAdmin ==
    /\ PatchIdle /\ SharedIdle /\ EncodeIdle /\ MainIdle /\ LogIdle /\ MacIdle
    /\ UnlockIdle
    /\ RepatchIdle
    /\ reqs = NoReqs
    /\ badges = [b \in {"b1"} |->
                    NewBadge(<<"A">>, normalise_mac_address(StrValue([i \in 1..16 |-> "f"])))]
    /\ gallery = [l \in {"cat"} |->
                    GalleryRow(Gallery[l].image_base64, Gallery[l].image_mime_type,
                               Gallery[l].image_color, Gallery[l].image_font, "", FALSE)]
    /\ admin_reqs = [a \in AdminRequests |-> IdleAdminReq]

\* the response of request a, and the tables its function read or wrote
Answer(a, code, tables) ==
    admin_reqs' = [admin_reqs EXCEPT ![a].pc = "done", ![a].status = code,
                                     ![a].touched = @ \cup tables]

\* the same with the error the response names
AnswerError(a, code, tables, error) ==
    admin_reqs' = [admin_reqs EXCEPT ![a].pc = "done", ![a].status = code,
                                     ![a].touched = @ \cup tables,
                                     ![a].error = error]

AtHandler(a, route) == admin_reqs[a].pc = "handler" /\ admin_reqs[a].route = route

(* a request for an admin route arrives *)
AdminReceive(a) ==
    /\ admin_reqs[a].pc = "idle"
    /\ \E route \in AdminRoutes, credentials \in CredentialsSent :
          admin_reqs' = [admin_reqs EXCEPT ![a].pc = "gate", ![a].route = route,
                                           ![a].credentials = credentials]
    /\ UNCHANGED <<gallery, badges, outsideAdmin>>

(* verify_credentials, dependencies.py lines 40-49; HTTPBasic itself answers *)
(* 401 when the header is absent                                             *)
VerifyCredentials(a) ==
    /\ admin_reqs[a].pc = "gate"
    /\ IF ~credentials_valid(admin_reqs[a].credentials)
       THEN Answer(a, 401, {})
       ELSE admin_reqs' = [admin_reqs EXCEPT ![a].pc = "handler"]
    /\ UNCHANGED <<gallery, badges, outsideAdmin>>

(* admin_pages.py lines 162-169 *)
AdminIndex(a) ==
    /\ AtHandler(a, "admin_index")
    /\ Answer(a, 200, {})
    /\ UNCHANGED <<gallery, badges, outsideAdmin>>

(* lines 172-183: the page of recent log entries *)
AdminLogsPage(a) ==
    /\ AtHandler(a, "admin_logs_page")
    /\ Answer(a, 200, {})
    /\ UNCHANGED <<gallery, badges, outsideAdmin>>

(* lines 186-206: the upload form lists the gallery *)
AdminImagesForm(a) ==
    /\ AtHandler(a, "admin_images_form")
    /\ Answer(a, 200, {"gallery"})
    /\ UNCHANGED <<gallery, badges, outsideAdmin>>

\* db.store_available_image, db.py lines 253-290
store_available_image(rows, image_label, row) ==
    [l \in DOMAIN rows \cup {image_label} |-> IF l = image_label THEN row ELSE rows[l]]

(* lines 209-357 *)
AdminImagesUpload(a) ==
    /\ AtHandler(a, "admin_images_upload")
    /\ \E fault \in Faults, image_label \in AdminLabels, locked \in BOOLEAN :
          IF fault = "invalid"
          THEN /\ Answer(a, 400, {"gallery"})
               /\ gallery' = gallery
          ELSE IF fault = "database"
          THEN /\ Answer(a, 500, {"gallery"})
               /\ gallery' = gallery
          ELSE /\ Answer(a, 303, {"gallery"})
               /\ gallery' = store_available_image(gallery, image_label,
                                GalleryRow(<<"png", image_label>>, "image/png", "", "",
                                           IF locked THEN "code" ELSE "", locked))
    /\ UNCHANGED <<badges, outsideAdmin>>

\* db.update_available_image_metadata, db.py lines 358-381
update_available_image_metadata(rows, image_label, image_color, secret_code, locked) ==
    IF image_label \notin DOMAIN rows
    THEN rows
    ELSE [rows EXCEPT ![image_label].image_color =
                          IF image_color = "" THEN DEFAULT_IMAGE_COLOR ELSE image_color,
                      ![image_label].secret_code = secret_code,
                      ![image_label].requires_secret_code = locked]

(* lines 360-508 *)
AdminImagesUpdate(a) ==
    /\ AtHandler(a, "admin_images_update")
    /\ \E fault \in Faults, image_label \in AdminLabels, locked \in BOOLEAN :
          IF fault = "invalid"
          THEN /\ Answer(a, 400, {"gallery"})
               /\ gallery' = gallery
          ELSE IF fault = "database"
          THEN /\ Answer(a, 500, {"gallery"})
               /\ gallery' = gallery
          ELSE /\ Answer(a, IF image_label \in DOMAIN gallery THEN 303 ELSE 404,
                         {"gallery"})
               /\ gallery' = update_available_image_metadata(gallery, image_label, "white",
                                IF locked THEN "code" ELSE "", locked)
    /\ UNCHANGED <<badges, outsideAdmin>>

\* db.delete_available_image, db.py lines 403-412
delete_available_image(rows, image_label) ==
    [l \in DOMAIN rows \ {image_label} |-> rows[l]]

(* lines 511-554 *)
AdminImagesDelete(a) ==
    /\ AtHandler(a, "admin_images_delete")
    /\ \E fault \in Faults, image_label \in AdminLabels :
          IF fault = "invalid"
          THEN /\ Answer(a, 303, {})
               /\ gallery' = gallery
          ELSE IF fault = "database"
          THEN /\ Answer(a, 500, {"gallery"})
               /\ gallery' = gallery
          ELSE /\ Answer(a, 303, {"gallery"})
               /\ gallery' = delete_available_image(gallery, image_label)
    /\ UNCHANGED <<badges, outsideAdmin>>

(* lines 557-576: the badge form lists the badges *)
AdminBadgesForm(a) ==
    /\ AtHandler(a, "admin_badges_form")
    /\ Answer(a, 200, {"badges"})
    /\ UNCHANGED <<gallery, badges, outsideAdmin>>

\* the unique constraint on badges.mac_address, models.py lines 20-24
MacTaken(rows, unique_id, mac_address) ==
    \E b \in DOMAIN rows \ {unique_id} : rows[b].mac_address = Some(mac_address)

\* db.update_badge_unique_id, db.py lines 434-454: the result and the rows
update_badge_unique_id(rows, current_id, new_id) ==
    IF current_id \notin DOMAIN rows THEN <<"not_found", rows>>
    ELSE IF current_id = new_id THEN <<"unchanged", rows>>
    ELSE IF new_id \in DOMAIN rows THEN <<"conflict", rows>>
    ELSE <<"updated",
           [b \in (DOMAIN rows \ {current_id}) \cup {new_id} |->
              IF b = new_id THEN rows[current_id] ELSE rows[b]]>>

(* lines 579-718 *)
AdminBadgesSubmit(a) ==
    /\ AtHandler(a, "admin_badges_submit")
    /\ \E fault \in Faults, unique_id \in AdminBadgeIds, original_unique_id \in AdminBadgeIds,
          name \in AdminNames, mac_address \in AdminMacs :
          LET normalised_mac == normalise_mac_address(StrValue(strip(mac_address)))
              renamed == IF unique_id # original_unique_id
                         THEN update_badge_unique_id(badges, original_unique_id, unique_id)
                         ELSE <<"unchanged", badges>>
          IN  IF fault = "invalid"
              THEN /\ Answer(a, 400, {"badges"})
                   /\ badges' = badges
              ELSE IF normalised_mac = None
              THEN /\ AnswerError(a, 400, {"badges"}, "mac_invalid")
                   /\ badges' = badges
              ELSE IF renamed[1] = "not_found"
              THEN /\ Answer(a, 404, {"badges"})
                   /\ badges' = badges
              ELSE IF renamed[1] = "conflict"
              THEN /\ Answer(a, 400, {"badges"})
                   /\ badges' = badges
              ELSE IF fault = "database"
              THEN \* update_badge_unique_id failed, or it committed and
                   \* create_or_update_badge failed
                   /\ Answer(a, 500, {"badges"})
                   /\ badges' \in {badges, renamed[2]}
              ELSE IF MacTaken(renamed[2], unique_id, Val(normalised_mac))
              THEN \* IntegrityError in create_or_update_badge, after the
                   \* session of update_badge_unique_id has committed
                   /\ AnswerError(a, 400, {"badges"}, "mac_conflict")
                   /\ badges' = renamed[2]
              ELSE /\ Answer(a, 303, {"badges"})
                   /\ badges' = create_or_update_badge(renamed[2], unique_id, name,
                                                       Val(normalised_mac))
    /\ UNCHANGED <<gallery, outsideAdmin>>

\* db.delete_badge, db.py lines 467-473
delete_badge(rows, unique_id) ==
    [b \in DOMAIN rows \ {unique_id} |-> rows[b]]

(* lines 721-756 *)
AdminBadgesDelete(a) ==
    /\ AtHandler(a, "admin_badges_delete")
    /\ \E fault \in Faults, unique_id \in AdminBadgeIds :
          IF fault = "invalid"
          THEN /\ Answer(a, 400, {"badges"})
               /\ badges' = badges
          ELSE IF fault = "database"
          THEN /\ Answer(a, 500, {"badges"})
               /\ badges' = badges
          ELSE /\ Answer(a, 303, {"badges"})
               /\ badges' = delete_badge(badges, unique_id)
    /\ UNCHANGED <<gallery, outsideAdmin>>

(* admin_api.py lines 54-105 *)
AdminCreateBadgeApi(a) ==
    /\ AtHandler(a, "admin_create_badge_api")
    /\ \E fault \in Faults, unique_id \in AdminBadgeIds, name \in AdminNames,
          mac_address \in AdminMacs :
          LET normalised_mac == normalise_mac_address(StrValue(strip(mac_address)))
          IN  IF fault = "invalid"
              THEN /\ Answer(a, 400, {})
                   /\ badges' = badges
              ELSE IF normalised_mac = None
              THEN /\ AnswerError(a, 400, {}, "mac_invalid")
                   /\ badges' = badges
              ELSE IF fault = "database"
              THEN /\ Answer(a, 500, {"badges"})
                   /\ badges' = badges
              ELSE IF MacTaken(badges, unique_id, Val(normalised_mac))
              THEN /\ AnswerError(a, 400, {"badges"}, "mac_conflict")
                   /\ badges' = badges
              ELSE /\ Answer(a, IF unique_id \in DOMAIN badges THEN 200 ELSE 201,
                             {"badges"})
                   /\ badges' = create_or_update_badge(badges, unique_id, name,
                                                       Val(normalised_mac))
    /\ UNCHANGED <<gallery, outsideAdmin>>

(* admin_api.py lines 108-239 *)
AdminUploadBadgeImageApi(a) ==
    /\ AtHandler(a, "admin_upload_badge_image_api")
    /\ \E fault \in Faults, image_label \in AdminLabels, locked \in BOOLEAN :
          IF fault = "invalid"
          THEN /\ Answer(a, 400, {})
               /\ gallery' = gallery
          ELSE IF fault = "database"
          THEN /\ Answer(a, 500, {"gallery"})
               /\ gallery' = gallery
          ELSE /\ Answer(a, IF image_label \in DOMAIN gallery THEN 200 ELSE 201,
                         {"gallery"})
               /\ gallery' = store_available_image(gallery, image_label,
                                GalleryRow(<<"png", image_label>>, "image/png", "", "",
                                           IF locked THEN "code" ELSE "", locked))
    /\ UNCHANGED <<badges, outsideAdmin>>

NextAdmin ==
    \/ \E a \in AdminRequests : AdminReceive(a)
    \/ \E a \in AdminRequests : VerifyCredentials(a)
    \/ \E a \in AdminRequests : AdminIndex(a)
    \/ \E a \in AdminRequests : AdminLogsPage(a)
    \/ \E a \in AdminRequests : AdminImagesForm(a)
    \/ \E a \in AdminRequests : AdminImagesUpload(a)
    \/ \E a \in AdminRequests : AdminImagesUpdate(a)
    \/ \E a \in AdminRequests : AdminImagesDelete(a)
    \/ \E a \in AdminRequests : AdminBadgesForm(a)
    \/ \E a \in AdminRequests : AdminBadgesSubmit(a)
    \/ \E a \in AdminRequests : AdminBadgesDelete(a)
    \/ \E a \in AdminRequests : AdminCreateBadgeApi(a)
    \/ \E a \in AdminRequests : AdminUploadBadgeImageApi(a)

(* Two admin requests, each through the gate and then its route. *)
SpecAdmin == InitAdmin /\ [][NextAdmin]_vars

---------------------------------------------------------------------------
(* LogStore, logs.py lines 21-39: a deque(maxlen=max_entries) behind an     *)
(* RLock.  Threads that log call append through InMemoryLogHandler.emit;    *)
(* the admin log page calls latest through get_recent_logs.                 *)

\* capacity of the store (1000 in log_store, small here so that it fills)
max_entries == 2
\* appends one thread makes
MaxAppends == 2

LogThreads == {"t1", "t2"}
\* the limits latest is called with, from below zero to above the capacity
Limits == (0 - 1)..(max_entries + 1)

IdleThread ==
    [pc |-> "idle", entry |-> None, limit |-> 0, result |-> None, appends |-> 0]

InitLog ==
    /\ PatchIdle /\ BadgeIdle /\ SharedIdle /\ EncodeIdle /\ MainIdle /\ AdminIdle
    /\ MacIdle
    /\ UnlockIdle
    /\ RepatchIdle
    /\ log_entries = << >>
    /\ log_lock = None
    /\ log_threads = [t \in LogThreads |-> IdleThread]
    /\ log_appended = << >>

\* mutant of deque_append: a full deque keeps its oldest entry and drops the
\* one before the newest
deque_append_KeepOldest(d, x) ==
    IF max_entries = 0 THEN d
    ELSE IF Len(d) = max_entries THEN SubSeq(d, 1, Len(d) - 1) \o <<x>>
    ELSE Append(d, x)

\* deque.append on a deque with maxlen=max_entries: a full deque drops its
\* leftmost element
deque_append(d, x) ==
    IF max_entries = 0 THEN d
    ELSE IF Len(d) = max_entries THEN Tail(d) \o <<x>>
    ELSE Append(d, x)

\* list(...)[::-1]
Reversed(s) == [k \in 1..Len(s) |-> s[Len(s) + 1 - k]]

\* the smaller and the larger of two integers
min(a, b) == IF a < b THEN a ELSE b
max(a, b) == IF a > b THEN a ELSE b

\* latest, lines 35-39, on the entries d
latest(d, limit) ==
    IF d = << >>
    THEN << >>
    ELSE LET clamped_limit == max(1, min(limit, Len(d)))
         IN  Reversed(SubSeq(d, Len(d) - clamped_limit + 1, Len(d)))

(* InMemoryLogHandler.emit, lines 49-58: a record becomes an entry and      *)
(* append is called with it; the entry is the thread's name and a counter   *)
EmitCall(t) ==
    /\ log_threads[t].pc = "idle"
    /\ log_threads[t].appends < MaxAppends
    /\ log_threads' = [log_threads EXCEPT ![t].pc = "append_acquire",
                                          ![t].entry = Some(<<t, log_threads[t].appends + 1>>)]
    /\ UNCHANGED <<log_entries, log_lock, log_appended, outsideLog>>

(* append, line 30: with self._lock *)
AppendAcquire(t) ==
    /\ log_threads[t].pc = "append_acquire"
    /\ log_lock = None
    /\ log_lock' = Some(t)
    /\ log_threads' = [log_threads EXCEPT ![t].pc = "append_locked"]
    /\ UNCHANGED <<log_entries, log_appended, outsideLog>>

(* line 31: self._entries.append(entry) *)
AppendEntry(t) ==
    /\ log_threads[t].pc = "append_locked"
    /\ log_entries' = deque_append(log_entries, Val(log_threads[t].entry))
    /\ log_appended' = Append(log_appended, Val(log_threads[t].entry))
    /\ log_threads' = [log_threads EXCEPT ![t].pc = "append_release"]
    /\ UNCHANGED <<log_lock, outsideLog>>

(* the end of the with block: the lock is released and append returns *)
AppendRelease(t) ==
    /\ log_threads[t].pc = "append_release"
    /\ log_lock' = None
    /\ log_threads' = [log_threads EXCEPT ![t].pc = "idle", ![t].entry = None,
                                          ![t].appends = @ + 1]
    /\ UNCHANGED <<log_entries, log_appended, outsideLog>>

(* get_recent_logs, lines 94-97: latest is called with a limit *)
LatestCall(t) ==
    /\ log_threads[t].pc = "idle"
    /\ \E limit \in Limits :
          log_threads' = [log_threads EXCEPT ![t].pc = "latest_acquire",
                                             ![t].limit = limit,
                                             ![t].result = None]
    /\ UNCHANGED <<log_entries, log_lock, log_appended, outsideLog>>

(* latest, line 35: with self._lock *)
LatestAcquire(t) ==
    /\ log_threads[t].pc = "latest_acquire"
    /\ log_lock = None
    /\ log_lock' = Some(t)
    /\ log_threads' = [log_threads EXCEPT ![t].pc = "latest_locked"]
    /\ UNCHANGED <<log_entries, log_appended, outsideLog>>

(* lines 36-39: the list to return is built *)
LatestBuild(t) ==
    /\ log_threads[t].pc = "latest_locked"
    /\ log_threads' = [log_threads EXCEPT
                          ![t].pc = "latest_release",
                          ![t].result = Some(latest(log_entries, log_threads[t].limit))]
    /\ UNCHANGED <<log_entries, log_lock, log_appended, outsideLog>>

(* the end of the with block: the lock is released and latest returns *)
LatestRelease(t) ==
    /\ log_threads[t].pc = "latest_release"
    /\ log_lock' = None
    /\ log_threads' = [log_threads EXCEPT ![t].pc = "idle"]
    /\ UNCHANGED <<log_entries, log_appended, outsideLog>>

NextLog ==
    \/ \E t \in LogThreads : EmitCall(t)
    \/ \E t \in LogThreads : AppendAcquire(t)
    \/ \E t \in LogThreads : AppendEntry(t)
    \/ \E t \in LogThreads : AppendRelease(t)
    \/ \E t \in LogThreads : LatestCall(t)
    \/ \E t \in LogThreads : LatestAcquire(t)
    \/ \E t \in LogThreads : LatestBuild(t)
    \/ \E t \in LogThreads : LatestRelease(t)

(* Threads appending to and reading from the one log store. *)
SpecLog == InitLog /\ [][NextLog]_vars

---------------------------------------------------------------------------
(* get_badge_by_mac_api and the callers of normalise_mac_address *)

InitMac ==
    /\ mac_value \in MacValues
    /\ normalised = None
    /\ normalised_again = None
    /\ mac_pc = "call"
    /\ PatchIdle /\ BadgeIdle /\ SharedIdle /\ EncodeIdle /\ MainIdle
    /\ AdminIdle /\ LogIdle
    /\ RepatchIdle
    /\ UnlockIdle

\* normalised = normalise_mac_address(mac_address)
Normalise ==
    /\ mac_pc = "call"
    /\ normalised' = normalise_mac_address(mac_value)
    /\ mac_pc' = "normalised"
    /\ UNCHANGED <<mac_value, normalised_again, outsideMac>>

\* the returned string handed to normalise_mac_address once more
NormaliseAgain ==
    /\ mac_pc = "normalised"
    /\ normalised # None
    /\ normalised_again' = normalise_mac_address(StrValue(Val(normalised)))
    /\ mac_pc' = "again"
    /\ UNCHANGED <<mac_value, normalised, outsideMac>>

NextMac == Normalise \/ NormaliseAgain

SpecMac == InitMac /\ [][NextMac]_vars

---------------------------------------------------------------------------
(* patch_firmware_bytes applied to a buffer it returned: the firmware stored *)
(* for a badge is the template patched once, and a tool that personalises a  *)
(* stored firmware hands patch_firmware_bytes its own result.                *)

InitRepatch ==
    /\ firmware_bytes \in Templates
    /\ new_image_data \in PixelBuffers
    /\ caller = "web" /\ pc = "idle"
    /\ firmware_data = << >>
    /\ image_start = None /\ image_size = None
    /\ hash_bytes = None
    /\ hash_start = None /\ hash_size = None
    /\ outcome = [kind |-> "pending"]
    /\ output_file = None
    /\ caller_result = [kind |-> "pending"]
    /\ second_image_data = << >>
    /\ repatched = [kind |-> "pending"]
    /\ repatch_pc = "first"
    /\ BadgeIdle /\ SharedIdle /\ EncodeIdle /\ MainIdle /\ AdminIdle /\ LogIdle
    /\ MacIdle
    /\ UnlockIdle

repatchFrame == <<caller, pc, firmware_data, patchLocals, output_file, caller_result,
                  firmware_bytes, new_image_data, outsideRepatch>>

\* patch_firmware_bytes(firmware_bytes, new_image_data)
FirstPatch ==
    /\ repatch_pc = "first"
    /\ outcome' = patch_firmware_bytes(firmware_bytes, new_image_data)
    /\ repatch_pc' = "second"
    /\ UNCHANGED <<repatchFrame, second_image_data, repatched>>

\* patch_firmware_bytes(patched, second_image_data) on the buffer returned,
\* with the same pixel buffer or with another one of the same length
SecondPatch ==
    /\ repatch_pc = "second"
    /\ outcome.kind = "return"
    /\ \E px \in {b \in PixelBuffers : Len(b) = Len(new_image_data)} :
          /\ second_image_data' = px
          /\ repatched' = patch_firmware_bytes(outcome.patched, px)
    /\ repatch_pc' = "done"
    /\ UNCHANGED <<repatchFrame, outcome>>

NextRepatch == FirstPatch \/ SecondPatch

SpecRepatch == InitRepatch /\ [][NextRepatch]_vars

---------------------------------------------------------------------------
(* Vocabulary of the properties, stated on the bytes themselves and not     *)
(* through Find.                                                            *)

\* offsets >= from where marker m occurs in data
Occurrences(data, m, from) == {i \in from..Len(data) : OccursAt(data, m, i)}

\* the first such offset, as a set of at most one element
FirstOccurrence(data, m, from) ==
    {i \in Occurrences(data, m, from) : \A j \in Occurrences(data, m, from) : i <= j}

\* <<first slot byte, end marker offset>> of the region opened by the first
\* marker open and closed by the first marker close at or after its last byte
RegionOf(data, open, close) ==
    UNION {{<<i + Len(open), j>> : j \in FirstOccurrence(data, close, i + Len(open))} :
             i \in FirstOccurrence(data, open, 0)}

ImageRegionOf(data) == RegionOf(data, MAGIC_START, MAGIC_END)
HashRegionOf(data) == RegionOf(data, HASH_MAGIC_START, HASH_MAGIC_END)

\* byte offsets inside the regions
SlotBytes(regions) == UNION {r[1]..(r[2] - 1) : r \in regions}

\* patch_firmware_bytes has searched for the image region / for the hash region
ImageSearched == outcome.kind # "pending" \/ pc \in {"check_size", "splice_image",
                    "find_hash", "splice_hash", "return"}
HashSearched == hash_bytes # None
Returned == outcome.kind = "return"
Raised(e) == outcome.kind = "raise" /\ outcome.error = e

\* the caller reports success to its own caller
CallerSucceeded ==
    /\ caller_result.kind = "return"
    /\ caller = "cli" => caller_result.value = TRUE

\* the returned buffer read back at the reported image region / hash region
ImageReadBack ==
    Slice(outcome.patched, outcome.image_start, outcome.image_start + outcome.image_size)
HashReadBack ==
    Slice(outcome.patched, Val(outcome.hash_start),
          Val(outcome.hash_start) + Val(outcome.hash_size))


\* offsets whose byte differs between the returned buffer and the template
ChangedBytes ==
    {p \in 0..(Len(firmware_bytes) - 1) : outcome.patched[p + 1] # firmware_bytes[p + 1]}

\* byte offsets of the image slot of the template
TemplateImageSlot == SlotBytes(ImageRegionOf(firmware_bytes))

\* byte offsets of the 8-byte hash slots of the template: 8 bytes between a
\* hash-start marker and a hash-end marker
TemplateHashSlots ==
    UNION {(i + Len(HASH_MAGIC_START))..(i + Len(HASH_MAGIC_START) + EXPECTED_HASH_SIZE - 1) :
             i \in {h \in Occurrences(firmware_bytes, HASH_MAGIC_START, 0) :
                      OccursAt(firmware_bytes, HASH_MAGIC_END,
                               h + Len(HASH_MAGIC_START) + EXPECTED_HASH_SIZE)}}

\* the template with its image slot holding the pixel buffer, byte by byte
ImagePatched ==
    LET regions == ImageRegionOf(firmware_bytes)
        r == CHOOSE x \in regions : TRUE
    IN  IF regions = {} THEN firmware_bytes
        ELSE [p \in 1..Len(firmware_bytes) |->
                IF r[1] < p /\ p <= r[2] THEN new_image_data[p - r[1]]
                ELSE firmware_bytes[p]]

---------------------------------------------------------------------------
(* Properties of one patcher run (specification Spec) *)

\* C1: every successful patch returns a buffer whose bytes at
\* [image_offset, image_offset + image_length) equal the pixel buffer, whatever
\* bytes the pixel buffer holds (marker bytes included).
C1_RoundTripReadBack ==
    Returned => ImageReadBack = new_image_data

C3_HashReadBack ==
    (Returned /\ outcome.hash_start # None) =>
        /\ outcome.hash_size = Some(EXPECTED_HASH_SIZE)
        /\ Len(outcome.hash_bytes) = EXPECTED_HASH_SIZE
        /\ Slice(outcome.patched, Val(outcome.hash_start),
                 Val(outcome.hash_start) + EXPECTED_HASH_SIZE) = outcome.hash_bytes

\* C3 witness: a successful patch that reports a hash region.
C3_Witness ==
    Returned /\ outcome.hash_start # None /\ pc = "done"

\* C4: on both paths, whenever the returned buffer read back at the reported image
\* region differs from the pixel buffer, or read back at the reported hash region
\* differs from the hash, the caller does not report success.
C4_VerificationSurfaced ==
    CallerSucceeded =>
        /\ ImageReadBack = new_image_data
        /\ outcome.hash_start # None => HashReadBack = outcome.hash_bytes

\* the three failure conditions of patch_firmware_bytes, once detected
FailureDetected ==
    \/ ImageSearched /\ image_start = None
    \/ ImageSearched /\ pc # "check_size" /\ image_size # None
          /\ Len(new_image_data) # Val(image_size)
    \/ HashSearched /\ hash_size # None /\ hash_size # Some(EXPECTED_HASH_SIZE)

\* C6: once a patch has failed (no image region, image size mismatch, or hash
\* size mismatch found after the image was spliced into the private copy), the
\* caller holds the error and no buffer: nothing is returned, no output file is
\* written, and the caller's own result is a failure without bytes.
C6_NoPartialWrite ==
    FailureDetected =>
        /\ outcome.kind = "raise"
        /\ "patched" \notin DOMAIN outcome
        /\ output_file = None
        /\ pc = "raised" \/ pc = "done"
        /\ pc = "done" =>
             \/ caller_result = [kind |-> "return", value |-> FALSE]
             \/ caller_result = [kind |-> "FirmwareGenerationError",
                                 cause |-> outcome.error]

\* C6 witness: the hash size mismatch is found when the private copy already holds
\* the new image bytes, and the caller has been answered.
C6_Witness ==
    /\ Raised("HashSizeMismatch")
    /\ firmware_data # firmware_bytes
    /\ pc = "done"

\* C7: with an image slot of S bytes located and a pixel buffer of N bytes, the
\* patch fails with the size-mismatch error carrying S and N whenever N # S, and
\* does not fail with that error when N = S.
C7_StrictSizeMatch ==
    (ImageSearched /\ pc # "check_size") =>
        \A r \in ImageRegionOf(firmware_bytes) :
            LET S == r[2] - r[1]
                N == Len(new_image_data)
            IN  /\ N # S => outcome = [kind |-> "raise", error |-> "ImageSizeMismatch",
                                       expected |-> S, received |-> N]
                /\ N = S => ~Raised("ImageSizeMismatch")

\* C7 witness: a pixel buffer shorter than a non-empty slot is refused.
C7_Witness ==
    /\ Raised("ImageSizeMismatch")
    /\ 0 < outcome.received /\ outcome.received < outcome.expected

\* C8: the patch fails with the no-image-region error exactly when the firmware
\* has no image-start marker, or no image-end marker at or after the byte that
\* follows the first image-start marker.
C8_MissingImageRegion ==
    ImageSearched => (Raised("NoImageRegion") <=> ImageRegionOf(firmware_bytes) = {})

\* C8 witness: both markers are present, the end marker only before the start.
C8_Witness ==
    /\ Raised("NoImageRegion")
    /\ Occurrences(firmware_bytes, MAGIC_START, 0) # {}
    /\ Occurrences(firmware_bytes, MAGIC_END, 0) # {}

\* C9: whenever the hash search locates a region (the first hash-start marker of
\* the searched buffer followed by a hash-end marker) whose slot is not 8 bytes,
\* the patch fails with the hash-size-mismatch error and no hash is written; when
\* it locates none, the patch does not fail and writes no hash.
C9_HashSizeMismatchFatal ==
    HashSearched =>
        LET spliced == ImagePatched
            located == HashRegionOf(spliced)
        IN  /\ \A r \in located :
                  r[2] - r[1] # EXPECTED_HASH_SIZE =>
                      /\ outcome = [kind |-> "raise", error |-> "HashSizeMismatch",
                                    expected |-> EXPECTED_HASH_SIZE,
                                    reserved |-> r[2] - r[1]]
                      /\ firmware_data = spliced
            /\ located = {} =>
                  /\ outcome.kind # "raise"
                  /\ firmware_data = spliced
                  /\ hash_start = None /\ hash_size = None

\* C9 witness: a located hash region reserving more than 8 bytes.
C9_Witness ==
    /\ Raised("HashSizeMismatch")
    /\ outcome.reserved > EXPECTED_HASH_SIZE

\* C10: for every firmware with an image region of the pixel buffer's size and
\* without a hash region (no hash-start marker, or no hash-end marker after it),
\* the patch succeeds, reports hash offset and length as absent, returns the
\* 8-byte hash, and changes bytes of the image slot only.
C10_MissingHashNotFatal ==
    (/\ outcome.kind # "pending"
     /\ \E r \in ImageRegionOf(firmware_bytes) : r[2] - r[1] = Len(new_image_data)
     /\ HashRegionOf(firmware_bytes) = {}) =>
        /\ Returned
        /\ outcome.hash_start = None /\ outcome.hash_size = None
        /\ Len(outcome.hash_bytes) = EXPECTED_HASH_SIZE
        /\ ChangedBytes \subseteq TemplateImageSlot

---------------------------------------------------------------------------
(* Properties of post_badge (specification SpecBadge) *)

\* request r was answered with the failure of render_badge_image or of
\* generate_firmware_from_image
CoreFailed(r) ==
    /\ reqs[r].pc = "done"
    /\ reqs[r].response.status = 500
    /\ reqs[r].response.error \in {"render", "firmware"}

\* C5: when render_badge_image or generate_firmware_from_image fails in a
\* post_badge request (no other request having started, the badge not deleted),
\* the stored badge row equals, in every field, the row the request found.
C5_NoPartialState ==
    \A r \in Requests :
        (/\ CoreFailed(r)
         /\ \A q \in Requests \ {r} : reqs[q].pc = "idle"
         /\ reqs[r].unique_id \in DOMAIN badges) =>
            badges[reqs[r].unique_id] = Val(reqs[r].profile)

---------------------------------------------------------------------------
(* Vocabulary of the properties of concurrent calls *)
InputObjects == TemplateObjects \cup PixelObjects
Finished(c) == calls[c].pc \in {"returned", "raised"}
CallReturned(c) == calls[c].pc = "returned"
\* the outcome of call c with the returned object replaced by its bytes
OutcomeBytes(c) ==
    IF calls[c].outcome.kind = "return"
    THEN [calls[c].outcome EXCEPT !.patched = heap[@]]
    ELSE calls[c].outcome
\* what call c returns or raises when it runs alone on its arguments
Alone(c) == patch_firmware_bytes(heap[calls[c].firmware_bytes],
                                 heap[calls[c].new_image_data])

(* C11: no step of a patch_firmware_bytes call, successful or failed,      *)
(* changes the bytes of the caller's firmware template or pixel buffer; a   *)
(* successful call returns an object that is neither of its arguments; and  *)
(* every finished call, whatever the interleaving with a call sharing its   *)
(* template or pixel buffer, has the outcome it has when run alone.         *)
C11_InputNeverMutated ==
    /\ [][\A o \in InputObjects : heap'[o] = heap[o]]_vars
    /\ [](\A c \in CallIds :
            /\ Finished(c) => OutcomeBytes(c) = Alone(c)
            /\ CallReturned(c) => calls[c].outcome.patched \notin InputObjects)

\* both calls patched the one template they share with different pixel
\* buffers, and each returned bytes that differ from the template
C11_Witness ==
    /\ \A c \in CallIds : CallReturned(c) /\ calls[c].firmware_bytes = "t1"
    /\ heap[calls["c1"].new_image_data] # heap[calls["c2"].new_image_data]
    /\ \A c \in CallIds : heap[calls[c].outcome.patched] # heap["t1"]
    /\ heap[calls["c1"].outcome.patched] # heap[calls["c2"].outcome.patched]

(* C12: the hash a successful patch_firmware_bytes call returns is the     *)
(* 8-byte prefix of the digest of its pixel buffer: two calls given equal   *)
(* pixel buffers return equal hashes whatever their templates hold, where   *)
(* the image slot lies and whether a hash slot exists.                      *)
C12_HashOfPixelsOnly ==
    /\ \A c \in CallIds :
          CallReturned(c) =>
             /\ Len(calls[c].outcome.hash_bytes) = EXPECTED_HASH_SIZE
             /\ calls[c].outcome.hash_bytes = Sha256Prefix(heap[calls[c].new_image_data])
    /\ \A c \in CallIds, d \in CallIds :
          (CallReturned(c) /\ CallReturned(d)
             /\ heap[calls[c].new_image_data] = heap[calls[d].new_image_data])
          => calls[c].outcome.hash_bytes = calls[d].outcome.hash_bytes

\* two calls with the same pixel bytes returned; one template has its image
\* slot at another offset and a hash slot, the other has no hash slot
C12_Witness ==
    /\ \A c \in CallIds : CallReturned(c)
    /\ heap[calls["c1"].new_image_data] = heap[calls["c2"].new_image_data]
    /\ calls["c1"].outcome.image_start # calls["c2"].outcome.image_start
    /\ calls["c1"].outcome.hash_start = None
    /\ calls["c2"].outcome.hash_start # None
    /\ calls["c1"].outcome.hash_bytes = calls["c2"].outcome.hash_bytes

---------------------------------------------------------------------------
(* C13: generate_firmware_from_image ends in one of two ways.  Either it   *)
(* returns the bytes and the hash (in uppercase hex) of a successful patch  *)
(* of the template with the pixel buffer, or it raises                      *)
(* FirmwareGenerationError; whenever decoding, encoding, loading or         *)
(* patching failed it is the error, never a returned firmware and never     *)
(* another exception type.                                                  *)
C13_TypedFailure ==
    caller = "web" =>
       /\ caller_result.kind \in {"pending", "return", "FirmwareGenerationError"}
       /\ pc = "done" => caller_result.kind # "pending"
       /\ caller_result.kind = "return" =>
             /\ outcome = patch_firmware_bytes(firmware_bytes, new_image_data)
             /\ outcome.kind = "return"
             /\ caller_result.patched_bytes = outcome.patched
             /\ caller_result.firmware_hash = HexUpper(outcome.hash_bytes)
       /\ (pc = "done" /\ outcome.kind # "return") =>
             caller_result.kind = "FirmwareGenerationError"

\* the patcher refused the pixel buffer for its size and the web path raised
\* FirmwareGenerationError
C13_Witness ==
    /\ caller = "web" /\ pc = "done"
    /\ outcome.kind = "raise" /\ outcome.error = "ImageSizeMismatch"
    /\ caller_result = [kind |-> "FirmwareGenerationError", cause |-> "ImageSizeMismatch"]

---------------------------------------------------------------------------
(* Vocabulary of the encoder's properties *)
Encoded == enc_pc # "decoded"
\* the least n with 8 * n >= w
CeilDiv8(w) == CHOOSE n \in 0..w : 8 * n >= w /\ 8 * (n - 1) < w
\* bit number k (0 the least significant) of byte b
BitOf(b, k) == (b \div (2 ^ k)) % 2
\* the image whose pixels are encoded: the decoded image at the target size
TargetRaster ==
    IF <<decoded_image.width, decoded_image.height>> # <<target_width, target_height>>
    THEN resize(decoded_image, target_width, target_height)
    ELSE decoded_image
\* the bit the buffer data holds for pixel p of an image w pixels wide
StoredBit(data, w, p) ==
    BitOf(data[p[2] * CeilDiv8(w) + (p[1] \div 8) + 1], 7 - (p[1] % 8))

(* C14: the buffer the encoder returns for target W x H has ceil(W/8) * H  *)
(* bytes and comes with width W and height H; for 240 x 96 it has 2880      *)
(* bytes and the size check of generate_firmware_from_image accepts it.     *)
C14_EncodedLength ==
    Encoded =>
       /\ Len(Val(converted).pixel_data) = CeilDiv8(target_width) * target_height
       /\ Val(converted).width = target_width
       /\ Val(converted).height = target_height
       /\ <<target_width, target_height>> = <<240, 96>>
             => Len(Val(converted).pixel_data) = 2880
       /\ enc_pc # "dimension_error"

\* a 2 x 2 image was resized to 240 x 96, encoded and accepted by the web path
C14_Witness ==
    /\ enc_pc = "accepted"
    /\ <<decoded_image.width, decoded_image.height>> = <<2, 2>>
    /\ <<Val(converted).width, Val(converted).height>> = <<240, 96>>
    /\ Len(Val(converted).pixel_data) = 2880

(* C15: the bit of every pixel is 1 exactly when the pixel's luminance is  *)
(* greater than 128: 128 gives 0, 129 gives 1.                              *)
C15_ThresholdBoundary ==
    Encoded =>
       LET lum == convert_L(TargetRaster).pixels
           data == Val(converted).pixel_data
       IN  \A p \in Positions(target_width, target_height) :
              StoredBit(data, target_width, p) = (IF lum[p][1] > 128 THEN 1 ELSE 0)

\* an encoded image with a pixel of luminance 128 stored as 0 beside a pixel
\* of luminance 129 stored as 1
C15_Witness ==
    /\ Encoded
    /\ decoded_image.mode = "L"
    /\ <<decoded_image.width, decoded_image.height>> = <<target_width, target_height>>
    /\ \E p \in Positions(target_width, target_height),
          q \in Positions(target_width, target_height) :
          /\ decoded_image.pixels[p] = <<128>>
          /\ StoredBit(Val(converted).pixel_data, target_width, p) = 0
          /\ decoded_image.pixels[q] = <<129>>
          /\ StoredBit(Val(converted).pixel_data, target_width, q) = 1

(* C16: pixel (x, y) of the thresholded raster is stored in byte            *)
(* y * ceil(W/8) + x div 8 at bit 7 - (x mod 8), and the bits of a row's    *)
(* last byte beyond the width are 0.                                        *)
C16_BitPacking ==
    Encoded =>
       LET on == point_threshold(convert_L(TargetRaster)).pixels
           data == Val(converted).pixel_data
           row == CeilDiv8(target_width)
       IN  /\ \A p \in Positions(target_width, target_height) :
                 StoredBit(data, target_width, p) = (IF on[p][1] > 0 THEN 1 ELSE 0)
           /\ \A y \in 0..(target_height - 1) :
                 \A x \in target_width..(8 * row - 1) :
                    BitOf(data[y * row + (x \div 8) + 1], 7 - (x % 8)) = 0

\* a 9-pixel-wide image whose only lit pixel is the ninth of the second
\* row: it is the top bit of the row's second byte, the other bits are 0
C16_Witness ==
    /\ Encoded
    /\ <<decoded_image.width, decoded_image.height>> = <<9, 2>>
    /\ <<target_width, target_height>> = <<9, 2>>
    /\ decoded_image.pixels[<<8, 1>>] = <<129>>
    /\ Val(converted).pixel_data = <<0, 0, 0, 128>>

---------------------------------------------------------------------------
\* the process has exited
Exited == exit_status # None
\* patch_firmware_bytes returned and both read-back checks of patch_firmware hold
PatchedAndVerified ==
    /\ outcome.kind = "return"
    /\ ImageReadBack = new_image_data
    /\ outcome.hash_start # None => HashReadBack = outcome.hash_bytes

(* C17: once the command-line program has exited, its status is not 0 if   *)
(* it was given too many arguments, if an input file was missing, if the    *)
(* patch raised (no image region, image size mismatch, hash size mismatch)  *)
(* or if a read-back check failed; the status is 0 only after a patch that  *)
(* returned and passed every read-back check.                               *)
C17_CliExitStatus ==
    Exited =>
       /\ (argc > 4 \/ ~firmware_exists \/ ~image_exists) => Val(exit_status) # 0
       /\ outcome.kind = "raise" => Val(exit_status) # 0
       /\ (outcome.kind = "return" /\ ~PatchedAndVerified) => Val(exit_status) # 0
       /\ Val(exit_status) = 0 <=> (pc = "exited" /\ PatchedAndVerified)

\* the patch returned but the image read back differs from the pixel
\* buffer, and the program exited with status 1
C17_Witness ==
    /\ Exited /\ Val(exit_status) = 1
    /\ outcome.kind = "return"
    /\ ImageReadBack # new_image_data
    /\ output_file # None

---------------------------------------------------------------------------
\* request a was sent without the configured username and password
Unauthenticated(a) ==
    \/ admin_reqs[a].credentials = None
    \/ Val(admin_reqs[a].credentials).username # basic_auth_username
    \/ Val(admin_reqs[a].credentials).password # basic_auth_password
PastGate(a) == admin_reqs[a].pc \in {"handler", "done"}

---------------------------------------------------------------------------
(* Vocabulary of the log store's properties *)
\* the last n elements of s, all of s when it is shorter
LastOf(s, n) == [k \in 1..(IF n < Len(s) THEN n ELSE Len(s)) |->
                   s[Len(s) - (IF n < Len(s) THEN n ELSE Len(s)) + k]]
\* how often x occurs in s
CountIn(s, x) == Cardinality({k \in 1..Len(s) : s[k] = x})
\* the entries whose append call has executed line 31
AppendExecuted ==
    {<<t, n>> : t \in LogThreads, n \in 1..MaxAppends} \cap
    UNION {{<<t, n>> : n \in 1..(log_threads[t].appends
                                   + (IF log_threads[t].pc = "append_release"
                                      THEN 1 ELSE 0))} : t \in LogThreads}

(* C19: whatever the interleaving of the threads, the store holds at most  *)
(* max_entries entries and they are the most recently appended ones in the  *)
(* order of their appends; every entry whose append has run was appended    *)
(* exactly once, and nothing else was appended.                             *)
C19_BoundedLogQueue ==
    /\ Len(log_entries) <= max_entries
    /\ log_entries = LastOf(log_appended, max_entries)
    /\ \A e \in AppendExecuted : CountIn(log_appended, e) = 1
    /\ \A k \in 1..Len(log_appended) : log_appended[k] \in AppendExecuted

\* both threads appended twice, interleaved, while the store was read: the
\* store holds the last max_entries entries, the oldest were dropped
C19_Witness ==
    /\ Len(log_appended) = 2 * MaxAppends
    /\ Len(log_entries) = max_entries
    /\ log_appended[1][1] # log_appended[2][1]
    /\ log_entries = LastOf(log_appended, max_entries)
    /\ log_entries # log_appended

(* C20: the list latest(limit) builds has at most limit entries, for every *)
(* integer limit, zero and negative included (none at all for a limit of    *)
(* zero or less); it holds the newest entries of the store, newest first;   *)
(* on an empty store it is empty.                                           *)
C20_LatestUpToLimit ==
    \A t \in LogThreads :
       log_threads[t].pc = "latest_release" =>
          LET result == Val(log_threads[t].result)
          IN  /\ Len(result) <= max(log_threads[t].limit, 0)
              /\ result = Reversed(LastOf(log_entries, Len(result)))
              /\ log_entries = << >> => result = << >>

---------------------------------------------------------------------------
(* Vocabulary of the properties of normalise_mac_address *)

\* the hexadecimal digits an input value carries, most significant first
DigitsOf(value) ==
    CASE value.type = "str" -> SelectSeq(value.text, LAMBDA ch : ch \in HexCharacters)
      [] value.type = "bytes" -> bytes_to_hex(value.data)
      [] value.type = "int" -> value.digits
      [] OTHER -> << >>

\* eight groups of two uppercase hexadecimal digits joined by colons
Canonical(text) ==
    /\ Len(text) = 3 * EXPECTED_MAC_BYTES - 1
    /\ \A i \in 1..Len(text) :
          IF i % 3 = 0 THEN text[i] = ":"
                       ELSE \E d \in 1..16 : HexDigits[d] = text[i]

ExtraDigits(value) ==
    IF Len(DigitsOf(value)) > EXPECTED_MAC_HEX_LENGTH
    THEN SubSeq(DigitsOf(value), 1, Len(DigitsOf(value)) - EXPECTED_MAC_HEX_LENGTH)
    ELSE << >>

---------------------------------------------------------------------------
(* Further properties of one patcher run (specification Spec) *)

\* C22: for a fixed firmware template the hash region patch_firmware_bytes
\* locates and overwrites (its offset and length, or its absence) does not
\* depend on the pixel buffer: it is the hash region of the template and no
\* byte of it lies inside the image slot.
C22_HashRegionIndependent ==
    Returned =>
        /\ outcome.hash_start = None <=> HashRegionOf(firmware_bytes) = {}
        /\ outcome.hash_start # None =>
              /\ <<Val(outcome.hash_start), Val(outcome.hash_start) + Val(outcome.hash_size)>>
                    \in HashRegionOf(firmware_bytes)
              /\ SlotBytes({<<Val(outcome.hash_start),
                              Val(outcome.hash_start) + Val(outcome.hash_size)>>})
                    \cap TemplateImageSlot = {}

---------------------------------------------------------------------------
(* Properties of patching twice (specification SpecRepatch) *)

Repatched == repatch_pc = "done"

\* C26: whenever patch_firmware_bytes succeeds, patching the returned buffer
\* again with the same pixel buffer succeeds, reports the same image offset and
\* length and the same hash offset and length, and returns the same buffer;
\* patching it with another pixel buffer of the same length succeeds at the
\* same offsets.
C26_Repatchable ==
    Repatched =>
        /\ repatched.kind = "return"
        /\ repatched.image_start = outcome.image_start
        /\ repatched.image_size = outcome.image_size
        /\ repatched.hash_start = outcome.hash_start
        /\ repatched.hash_size = outcome.hash_size
        /\ second_image_data = new_image_data => repatched.patched = outcome.patched

\* the image slot found by its definition: <<first slot byte, end marker>>
LocatedSlot ==
    /\ ImageRegionOf(firmware_bytes) # {}
    /\ image_start # None /\ image_size # None
    /\ <<Val(image_start), Val(image_start) + Val(image_size)>>
          \in ImageRegionOf(firmware_bytes)

\* offsets of the occurrences of the image markers behind the first start marker
\* and behind the end marker that closes the slot
LaterStartMarkers ==
    UNION {{i \in Occurrences(firmware_bytes, MAGIC_START, r[1]) : TRUE} :
             r \in ImageRegionOf(firmware_bytes)}
LaterEndMarkers ==
    UNION {{i \in Occurrences(firmware_bytes, MAGIC_END, r[2] + 1) : TRUE} :
             r \in ImageRegionOf(firmware_bytes)}

\* the image slot is located where its markers are, and an empty slot accepts
\* an empty pixel buffer only
SlotLocatedAsDefined ==
    /\ ImageSearched =>
          IF ImageRegionOf(firmware_bytes) = {}
          THEN image_start = None \/ image_size = None
          ELSE LocatedSlot
    /\ (Returned /\ image_size = Some(0)) => new_image_data = << >>
    /\ (ImageSearched /\ pc # "check_size" /\ image_size = Some(0) /\ new_image_data # << >>)
          => Raised("ImageSizeMismatch")

\* C27 as stated: the image slot begins right after the first image-start marker
\* and ends at the first image-end marker at or after that byte, with the
\* offset and length reported accordingly; a slot of length 0 is located and
\* accepts only an empty pixel buffer; and every later occurrence of either
\* marker is still in place in the returned buffer.
C27_LaterMarkersUntouched ==
    /\ SlotLocatedAsDefined
    /\ Returned =>
          /\ \A i \in LaterStartMarkers : OccursAt(outcome.patched, MAGIC_START, i)
          /\ \A i \in LaterEndMarkers : OccursAt(outcome.patched, MAGIC_END, i)

\* C27 amended: as above, but only the later occurrences that lie outside the
\* located slot are still in place; a start marker inside the slot is slot
\* content and is overwritten with the pixel buffer.
C27_ImageSlotLocation ==
    /\ SlotLocatedAsDefined
    /\ Returned =>
          /\ \A i \in LaterStartMarkers :
                i >= outcome.image_start + outcome.image_size
                    => OccursAt(outcome.patched, MAGIC_START, i)
          /\ \A i \in LaterEndMarkers : OccursAt(outcome.patched, MAGIC_END, i)

\* an empty slot was located in a template that holds a later start marker
\* behind it, and the patch returned with that marker still in place
C27_Witness ==
    /\ Returned
    /\ outcome.image_size = 0
    /\ LaterStartMarkers # {}
    /\ \A i \in LaterStartMarkers : OccursAt(outcome.patched, MAGIC_START, i)

\* C28: whenever the command-line patch_firmware returns False (a patch error
\* or a failed read-back of the image or hash region), that call has written no
\* output file; the file is written only on runs that return True.
C28_OutputOnlyOnTrue ==
    (caller = "cli" /\ caller_result.kind = "return" /\ caller_result.value = FALSE)
        => output_file = None

---------------------------------------------------------------------------
(* Further properties of the personalisation requests (specification SpecBadge) *)

\* request r was answered with the redirect that follows a stored render
Saved(r) == reqs[r].pc = "done" /\ reqs[r].response.status = 303

\* C23: when two post_badge requests on one badge have both run to their
\* redirect, in whatever interleaving of their steps, the badge record holds
\* the name, the selected image and the firmware of one and the same request:
\* the stored name is the name drawn into the stored image and firmware.
C23_ConcurrentConsistent ==
    (\A r \in Requests : Saved(r)) =>
        \A b \in DOMAIN badges :
            \E r \in Requests :
                /\ reqs[r].unique_id = b
                /\ badges[b].name = reqs[r].effective_name
                /\ badges[b].selected_image_base64 = reqs[r].personalised_base64
                /\ badges[b].firmware_base64 = Val(reqs[r].firmware).firmware_base64

---------------------------------------------------------------------------
(* Properties of the badge table (specification SpecBadgeTable) *)

\* C25: post_badge stores a personalisation that uses a gallery image with
\* requires_secret_code set only if fetch_profile found an unlock record of
\* that image for that badge; a request for a locked image that is not
\* unlocked is never answered with the redirect of a stored render.
C25_LockedImagesProtected ==
    \A r \in Requests :
        Saved(r) =>
            (Val(reqs[r].selected_image).requires_secret_code
                => Val(reqs[r].selected_image).is_unlocked)

\* the fields save_badge_render writes
RenderFields(row) ==
    <<row.firmware_base64, row.firmware_hash, row.selected_image_label,
      row.selected_image_base64, row.selected_image_mime_type,
      row.selected_image_color, row.selected_image_font, row.selected_font_size,
      row.selected_text_x, row.selected_text_y>>

\* the row holds the default firmware, the hash "0" * 16 and no selected image
AsCreated(row) == RenderFields(row) = RenderFields(NewBadge(row.name, row.mac_address))

\* the row holds one stored render: a selected image of the gallery, the
\* firmware patched with it and the hash of it
AsRendered(row) ==
    /\ row.selected_image_base64 # None
    /\ row.selected_image_label # None
    /\ Val(row.selected_image_label) \in DOMAIN Gallery
    /\ Val(row.selected_image_base64).source = Gallery[Val(row.selected_image_label)].image_base64
    /\ row.firmware_base64.image = row.selected_image_base64
    /\ row.firmware_hash.digest_of = row.selected_image_base64

\* the step is request r storing its render for badge b
SavesRender(r, b) ==
    /\ reqs[r].pc = "save" /\ reqs[r].unique_id = b
    /\ reqs'[r].pc = "done" /\ reqs'[r].response.status = 303
    /\ badges'[b].selected_image_base64 = reqs[r].personalised_base64
    /\ badges'[b].firmware_base64 = Val(reqs[r].firmware).firmware_base64
    /\ badges'[b].firmware_hash = Val(reqs[r].firmware).firmware_hash

\* C24: under badge create and update, rename, personalisation and delete,
\* each badge's firmware, firmware hash and selected image are the creation
\* defaults (default firmware, hash "0" * 16, no selected image) or those of
\* one stored render; a step changes any of them only by storing one render
\* that writes them all, and every other step on an existing badge, the update
\* through create_or_update_badge included, leaves them as they are.
C24_FirmwareWithImage ==
    /\ [](\A b \in DOMAIN badges : AsCreated(badges[b]) \/ AsRendered(badges[b]))
    /\ [][\A b \in DOMAIN badges \cap DOMAIN badges' :
             RenderFields(badges'[b]) # RenderFields(badges[b])
                 => \E r \in Requests : SavesRender(r, b)]_vars

\* a badge that holds a stored render and a MAC address, its name no longer
\* the one drawn into the image: the admin updated it after the render
C24_Witness ==
    \E b \in DOMAIN badges :
        /\ AsRendered(badges[b]) /\ ~AsCreated(badges[b])
        /\ badges[b].mac_address # None
        /\ badges[b].name # Val(badges[b].selected_image_base64).text

---------------------------------------------------------------------------
(* Further properties of the admin routes (specification SpecAdmin) *)

\* no two badges hold the same MAC address
MacsUnique ==
    \A b \in DOMAIN badges, c \in DOMAIN badges :
        (b # c /\ badges[b].mac_address # None)
            => badges[b].mac_address # badges[c].mac_address

\* every stored MAC address is what normalise_mac_address returns for it
MacsCanonical ==
    \A b \in DOMAIN badges :
        badges[b].mac_address # None =>
            /\ Canonical(Val(badges[b].mac_address))
            /\ normalise_mac_address(StrValue(Val(badges[b].mac_address)))
                  = badges[b].mac_address

\* C29: under the admin's badge create and update operations (page form and
\* JSON API) no two badges hold the same MAC address and every stored MAC
\* address is a value normalise_mac_address returns; and a request that would
\* give a badge the MAC address of another badge is answered 400 and leaves
\* the badge table as it was.
C29_MacUniqueCanonical ==
    /\ [](MacsUnique /\ MacsCanonical)
    /\ [][\A a \in AdminRequests :
             (admin_reqs[a].pc = "handler" /\ admin_reqs'[a].error = "mac_conflict")
                 => (admin_reqs'[a].status = 400 /\ badges' = badges)]_vars
====
